---- MODULE Spec2Model ----
(***************************************************************************)
(* Subscription lifecycle, usage gate and usage metering of the QR         *)
(* generator backend (backend/src/services/subscriptionService.ts,         *)
(* qrCodeService.ts, middleware/auth.ts, controllers/authController.ts).   *)
(*                                                                         *)
(* Every service method is an async function: it runs atomically between   *)
(* two awaits and may interleave with other requests at each await.  A     *)
(* request is a process p; proc[p].pc names the await it is suspended at.  *)
(* One action below is one resumption: the database call that resolves     *)
(* together with the synchronous code that follows it up to the next       *)
(* await or the return.                                                    *)
(***************************************************************************)
EXTENDS Integers, Sequences, FiniteSets, Bags, TLC

\* ------------------------------------------------------------------ bounds
MaxSubs == 4              \* subscription rows up to which upgrades start
MaxQrCodes == 2           \* qrCode rows up to which createQrCode starts
MaxTracked == 2           \* counter total up to which a download or a
                          \* direct trackUsage call starts
BigCount == 10000000      \* a counter value far above every finite quota
RegisterBy == 0           \* the latest instant at which users register
MaxTokens == 3            \* the tokens generateSecureToken generates
\* Clock resolution: the ticks of one day; with more than one tick per day,
\* Math.ceil(timeDiff / (1000*60*60*24)) rounds a started day up.
DAY == 2
\* new Date(y, m, 1) .. new Date(y, m+1, 0): the calendar month, modelled
\* with a fixed number of days.
DaysPerMonth == 30

Users == {"u1", "u2"}
OneUser == {"u1"}
Procs == {"p1", "p2"}
SeqProcs == {"p1"}

\* ------------------------------------------------------- program constants
TRIAL_DAYS == 14
VERIFY_HOURS == 24
RESET_HOURS == 1

TrialLen == TRIAL_DAYS * DAY
MonthLen == DaysPerMonth * DAY
\* The instants the clock is observed at: around the end of a trial and at
\* the start of the next month.
TimePoints == {TrialLen - 1, TrialLen, TrialLen + 1, MonthLen}

NoDate == -1
Current == {"ACTIVE", "TRIALING", "PAST_DUE"}
GateActions == {"qr_generated", "api_call", "dynamic_qr", "logo_upload"}
PaidPlans == {"PRO", "BUSINESS", "ENTERPRISE"}

PLAN_LIMITS ==
  [ TRIAL      |-> [qrCodesPerMonth |-> 100, dynamicQrCodes |-> 10,
                    apiCallsPerMonth |-> 1000, logoUploads |-> TRUE,
                    analytics |-> "basic",
                    exportFormats |-> {"png", "jpg", "svg", "pdf"},
                    watermark |-> FALSE],
    FREE       |-> [qrCodesPerMonth |-> 10, dynamicQrCodes |-> 0,
                    apiCallsPerMonth |-> 0, logoUploads |-> FALSE,
                    analytics |-> "none",
                    exportFormats |-> {"png"},
                    watermark |-> TRUE],
    PRO        |-> [qrCodesPerMonth |-> -1, dynamicQrCodes |-> 50,
                    apiCallsPerMonth |-> 10000, logoUploads |-> TRUE,
                    analytics |-> "advanced",
                    exportFormats |-> {"png", "jpg", "svg", "pdf"},
                    watermark |-> FALSE],
    BUSINESS   |-> [qrCodesPerMonth |-> -1, dynamicQrCodes |-> 200,
                    apiCallsPerMonth |-> 50000, logoUploads |-> TRUE,
                    analytics |-> "advanced",
                    exportFormats |-> {"png", "jpg", "svg", "pdf"},
                    watermark |-> FALSE],
    ENTERPRISE |-> [qrCodesPerMonth |-> -1, dynamicQrCodes |-> -1,
                    apiCallsPerMonth |-> -1, logoUploads |-> TRUE,
                    analytics |-> "advanced",
                    exportFormats |-> {"png", "jpg", "svg", "pdf"},
                    watermark |-> FALSE] ]

\* ------------------------------------------------------------------- state
VARIABLES
  now,       \* the clock (new Date()), in ticks
  users,     \* the user table: id -> the row of the user
  emailVerifyToken,    \* the emailVerifyToken table, a set of rows
  passwordResetToken,  \* the passwordResetToken table, a set of rows
  issued,    \* how many tokens generateSecureToken has generated
  subs,      \* the subscription table, in creation order (index = id)
  usage,     \* the usageTracking table: <<user, actionType, day>> -> count
  qrCodes,   \* the qrCode table, a bag of rows
  proc,      \* the requests in flight
  ret        \* the call that returned in the last step, with its result

\* The token tables with the generator's count.
tokens == <<emailVerifyToken, passwordResetToken, issued>>

vars == <<now, users, tokens, subs, usage, qrCodes, proc, ret>>

\* ------------------------------------------------------------ pure helpers
Max(a, b) == IF a >= b THEN a ELSE b

\* Math.ceil(a / b) for b > 0
CeilDiv(a, b) == -((-a) \div b)

DayOf(t) == t \div DAY
MonthOf(d) == d \div DaysPerMonth

RECURSIVE SumOver(_, _)
SumOver(f, S) ==
  IF S = {} THEN 0
  ELSE LET k == CHOOSE x \in S : TRUE IN f[k] + SumOver(f, S \ {k})

SubRow(u, plan, status, trialEnd) ==
  [userId |-> u, planType |-> plan, status |-> status, trialEnd |-> trialEnd]

\* findFirst({where: {userId, status: {in: statuses}}, orderBy: createdAt desc}):
\* the id of the newest matching row, 0 when there is none.
FindFirst(u, statuses) ==
  LET ids == {i \in 1..Len(subs) :
                subs[i].userId = u /\ subs[i].status \in statuses}
  IN IF ids = {} THEN 0 ELSE CHOOSE i \in ids : \A j \in ids : j <= i

TrialDaysLeftFloor(trialEnd, t) == Max(0, (trialEnd - t) \div DAY)

\* trialDaysLeft = Math.max(0, Math.ceil(timeDiff / msPerDay))
TrialDaysLeft(trialEnd, t) == Max(0, CeilDiv(trialEnd - t, DAY))

NoInfo ==
  [present |-> FALSE, planType |-> "-", status |-> "-",
   trialDaysLeft |-> 0, isTrialActive |-> FALSE]

\* The SubscriptionInfo getSubscriptionInfo builds from the row it read.
InfoOf(row, t) ==
  LET timed == row.planType = "TRIAL" /\ row.trialEnd # NoDate
      left == IF timed THEN TrialDaysLeft(row.trialEnd, t) ELSE 0
  IN [present |-> TRUE, planType |-> row.planType, status |-> row.status,
      trialDaysLeft |-> left, isTrialActive |-> left > 0]

\* The condition under which getSubscriptionInfo calls expireTrial.
MustExpire(row, t) ==
  /\ row.planType = "TRIAL" /\ row.trialEnd # NoDate
  /\ TrialDaysLeft(row.trialEnd, t) = 0
  /\ row.status = "TRIALING"

LimitsPlanTrial(info) == IF info.present THEN info.planType ELSE "TRIAL"

\* getPlanLimits: the plan whose limits are returned.
LimitsPlan(info) == IF info.present THEN info.planType ELSE "FREE"

\* All the user's counter rows of a kind, of every month, added up.
Tracked(u, kind) ==
  SumOver(usage, {k \in DOMAIN usage : k[1] = u /\ k[2] = kind})

MonthlyUsageAllTime(u, kind, t) == Tracked(u, kind)

\* getCurrentMonthlyUsage: _sum.count over the rows of the month of t.
MonthlyUsage(u, kind, t) ==
  LET m == MonthOf(DayOf(t))
      firstDay == m * DaysPerMonth
      lastDay == (m + 1) * DaysPerMonth - 1
      keys == {k \in DOMAIN usage :
                 /\ k[1] = u /\ k[2] = kind
                 /\ k[3] >= firstDay /\ k[3] <= lastDay}
  IN SumOver(usage, keys)

\* prisma.qrCode.count({where: {userId, isDynamic: true, isActive: true}})
DynamicCount(u) ==
  LET rows == {r \in BagToSet(qrCodes) :
                 r.userId = u /\ r.isDynamic /\ r.isActive}
  IN SumOver(qrCodes, rows)

\* Results of canPerformAction; an absent reason is "-", an absent
\* upgradeRequired is FALSE.
NoResult == [allowed |-> FALSE, reason |-> "-", upgradeRequired |-> FALSE]
Allowed == [allowed |-> TRUE, reason |-> "-", upgradeRequired |-> FALSE]
Deny(why) == [allowed |-> FALSE, reason |-> why, upgradeRequired |-> TRUE]

ActionKind(a) == IF a = "api_call" THEN "API_CALL" ELSE "QR_GENERATED"
Quota(limits, a) ==
  CASE a = "qr_generated" -> limits.qrCodesPerMonth
    [] a = "api_call" -> limits.apiCallsPerMonth
    [] a = "dynamic_qr" -> limits.dynamicQrCodes
    [] OTHER -> IF limits.logoUploads THEN -1 ELSE 0
LimitReason(a) ==
  CASE a = "qr_generated" -> "Monthly QR code limit reached"
    [] a = "api_call" -> "Monthly API call limit reached"
    [] OTHER -> "Dynamic QR code limit reached"

\* ---------------------------------------------------------------- accounts
\* Strings of the requests (e-mail addresses, passwords) are sequences of
\* characters.
Alphabet ==
  <<"a", "b", "c", "d", "e", "f", "g", "h", "i", "j", "k", "l", "m",
    "n", "o", "p", "q", "r", "s", "t", "u", "v", "w", "x", "y", "z">>
Capitals ==
  <<"A", "B", "C", "D", "E", "F", "G", "H", "I", "J", "K", "L", "M",
    "N", "O", "P", "Q", "R", "S", "T", "U", "V", "W", "X", "Y", "Z">>
Digits == {"0", "1", "2", "3", "4", "5", "6", "7", "8", "9"}
SpecialCharacters == {"@", "$", "!", "%", "*", "?", "&"}
Range(s) == {s[i] : i \in DOMAIN s}

\* String.prototype.toLowerCase
ToLowerCase(str) ==
  [i \in DOMAIN str |->
     IF \E k \in DOMAIN Capitals : Capitals[k] = str[i]
     THEN Alphabet[CHOOSE k \in DOMAIN Capitals : Capitals[k] = str[i]]
     ELSE str[i]]

\* AuthUtils.validatePassword: the errors it collects.
ValidatePassword(password) ==
  LET has(S) == \E i \in DOMAIN password : password[i] \in S
      errors ==
        (IF Len(password) < 8 THEN {"at least 8 characters long"} ELSE {})
        \cup (IF has(Range(Alphabet)) THEN {} ELSE {"one lowercase letter"})
        \cup (IF has(Range(Capitals)) THEN {} ELSE {"one uppercase letter"})
        \cup (IF has(Digits) THEN {} ELSE {"one number"})
        \cup (IF has(SpecialCharacters) THEN {} ELSE {"one special character"})
  IN [isValid |-> errors = {}, errors |-> errors]

\* AuthUtils.hashPassword: bcrypt.compare accepts the password hashed and no
\* other one.
HashPassword(password) == [bcrypt |-> password]

\* The requests' passwords: two that pass validatePassword, one without a
\* special character, one of four characters.
Strong == <<"P", "a", "s", "s", "w", "0", "r", "d", "!">>
Changed == <<"N", "e", "w", "p", "a", "s", "s", "1", "$">>
NoSpecial == <<"P", "a", "s", "s", "w", "0", "r", "d">>
Short == <<"A", "b", "1", "!">>

\* The addresses the model's users register with.
Address == [u1 |-> <<"a", "@", "x">>, u2 |-> <<"b", "@", "x">>]

\* The row of a registered user whose address is verified.
Account(u) ==
  [email |-> Address[u], passwordHash |-> HashPassword(Strong),
   emailVerified |-> TRUE]

\* No token: generateSecureToken's results are counted from 1.
NoToken == 0
NoTokens == emailVerifyToken = {} /\ passwordResetToken = {} /\ issued = 0

\* expiresAt of generateEmailVerificationToken and of
\* generatePasswordResetToken, in ticks after their call.
VerifyLen == (VERIFY_HOURS * DAY) \div 24
ResetLen == (RESET_HOURS * DAY) \div 24

TokenExpiredNever(row, t) == FALSE

\* new Date() > token.expiresAt
TokenExpired(row, t) == t > row.expiresAt

\* findUnique({where: {email}}): the ids of the rows with the address.
FindByEmail(email) == {u \in DOMAIN users : users[u].email = email}

\* findUnique({where: {token}}) on a token table.
FindToken(table, token) == {row \in table : row.token = token}

\* ----------------------------------------------------------- content data
\* A string is the sequence of its pieces: the characters of what the user
\* typed, and each literal of the code as one piece.  An optional field is
\* undefined or holds a string.
Undefined == [set |-> FALSE, v |-> <<>>]
Some(str) == [set |-> TRUE, v |-> str]

\* field || fallback, for a string field: undefined and '' are falsy.
OrElse(field, fallback) ==
  IF field.set /\ field.v # <<>> THEN field.v ELSE fallback

\* QrContentData, with the fields the branches below read; wifiHidden is
\* "undefined", "true" or "false".
NoData ==
  [qrType |-> "-", content |-> <<>>, phoneNumber |-> Undefined,
   wifiSsid |-> Undefined, wifiPassword |-> Undefined,
   wifiSecurity |-> Undefined, wifiHidden |-> "undefined",
   socialPlatform |-> Undefined, socialHandle |-> Undefined,
   reviewUrl |-> Undefined]

HiddenAlways(data) == <<"true">>

\* const hidden = data.wifiHidden ? 'true' : 'false'
Hidden(data) == IF data.wifiHidden = "true" THEN <<"true">> ELSE <<"false">>

\* const socialUrls = {...}
socialUrls ==
  [twitter |-> <<"https://twitter.com/">>,
   instagram |-> <<"https://instagram.com/">>,
   facebook |-> <<"https://facebook.com/">>,
   linkedin |-> <<"https://linkedin.com/in/">>,
   youtube |-> <<"https://youtube.com/@">>,
   tiktok |-> <<"https://tiktok.com/@">>,
   github |-> <<"https://github.com/">>]

\* str.replace('@', ''): a string pattern replaces the first occurrence,
\* wherever it is.
RECURSIVE ReplaceFirstAt(_)
ReplaceFirstAt(str) ==
  IF str = <<>> THEN <<>>
  ELSE IF Head(str) = "@" THEN Tail(str)
       ELSE <<Head(str)>> \o ReplaceFirstAt(Tail(str))

\* (socialUrls as any)[platform]: the entry of the table, or undefined,
\* which + turns into the text 'undefined'.  platform is one piece.
SocialBase(platform) ==
  IF Len(platform) = 1 /\ platform[1] \in DOMAIN socialUrls
  THEN socialUrls[platform[1]]
  ELSE <<"undefined">>

\* generateQrContent(data), for the types PHONE, WIFI, SOCIAL, REVIEW, TEXT
\* and URL (the default); the EMAIL, SMS, VCARD and LOCATION branches are
\* not part of this development.
GenerateQrContent(data) ==
  CASE data.qrType = "PHONE" -> <<"tel:">> \o OrElse(data.phoneNumber, <<>>)
    [] data.qrType = "WIFI" ->
         <<"WIFI:T:">> \o OrElse(data.wifiSecurity, <<"WPA">>)
           \o <<";S:">> \o OrElse(data.wifiSsid, <<>>)
           \o <<";P:">> \o OrElse(data.wifiPassword, <<>>)
           \o <<";H:">> \o Hidden(data) \o <<";;">>
    [] data.qrType = "SOCIAL" ->
         LET platform == OrElse(data.socialPlatform, <<"twitter">>)
             handle == ReplaceFirstAt(OrElse(data.socialHandle, <<>>))
         IN SocialBase(platform) \o handle
    [] data.qrType = "REVIEW" -> OrElse(data.reviewUrl, <<>>)
    [] OTHER -> data.content

\* ---------------------------------------------------------------- renderer
\* styleConfig.size as the route passes it: parseInt(size), a number or NaN.
Size(v) == [nan |-> FALSE, v |-> v]
NaNSize == [nan |-> TRUE, v |-> 0]

\* A call of generateStyledQrCode: the size, the module grid QRCode.create
\* returns for the content (side n, dark the <<col, row>> for which
\* modules.get(col, row) is true; encodable FALSE when QRCode.create throws),
\* and the logo buffer ("none" when there is none).
Job(size, n, dark, logo, encodable) ==
  [size |-> size, n |-> n, dark |-> dark, logo |-> logo,
   encodable |-> encodable]
NoJob == Job(Size(0), 0, {}, "none", TRUE)

\* The canvas: whether the background was filled, the modules painted, in
\* order, each with the corner it was painted at (x = xn / n, y = yn / n),
\* and what addLogoToCanvas drew.
NoCanvas == [filled |-> FALSE, painted |-> <<>>, logo |-> <<>>]

\* createCanvas(size, size) and canvas.toBuffer with a size that is a
\* positive number.
PositiveSize(size) == ~size.nan /\ size.v > 0

HasLogo(job) == job.logo # "none"

SkipsNothing(job, col, row) == FALSE

\* if (logoBuffer && x >= logoAreaStart && x <= logoAreaEnd &&
\*     y >= logoAreaStart && y <= logoAreaEnd) continue;
\* with x = col * size / n, logoAreaStart = (size - size * 0.25) / 2 and
\* logoAreaEnd = logoAreaStart + size * 0.25, all multiplied by 8 * n.
InLogoArea(job, col, row) ==
  LET sz == job.size.v
      x == 8 * col * sz
      y == 8 * row * sz
      logoAreaStart == 3 * sz * job.n
      logoAreaEnd == 5 * sz * job.n
  IN /\ HasLogo(job)
     /\ x >= logoAreaStart /\ x <= logoAreaEnd
     /\ y >= logoAreaStart /\ y <= logoAreaEnd

\* The two loops over row and col, from cell k on (k = row * n + col).
RECURSIVE DrawModules(_, _)
DrawModules(job, k) ==
  IF k >= job.n * job.n THEN <<>>
  ELSE LET row == k \div job.n
           col == k % job.n
       IN (IF <<col, row>> \in job.dark /\ ~InLogoArea(job, col, row)
           THEN <<[col |-> col, row |-> row,
                   xn |-> col * job.size.v, yn |-> row * job.size.v]>>
           ELSE <<>>) \o DrawModules(job, k + 1)

AddLogoUnguarded(logo) == <<"patch", "image">>

\* addLogoToCanvas: loadImage, then the background patch and the image; a
\* logo loadImage cannot decode is caught and nothing is drawn.
AddLogoToCanvas(logo) ==
  IF logo = "corrupt" THEN <<>> ELSE <<"patch", "image">>

\* generateStyledQrCode: the results it can have, each either thrown or an
\* image of the canvas.  With a size that is not a positive number the code
\* goes on as with any other; whether createCanvas or toBuffer then throw
\* is up to the canvas library.
GenerateStyledQrCode(job) ==
  IF ~job.encodable
  THEN {[threw |-> TRUE, canvas |-> NoCanvas]}
  ELSE LET canvas == [filled |-> TRUE,
                      painted |-> DrawModules(job, 0),
                      logo |-> IF HasLogo(job)
                               THEN AddLogoToCanvas(job.logo) ELSE <<>>]
       IN IF PositiveSize(job.size)
          THEN {[threw |-> FALSE, canvas |-> canvas]}
          ELSE {[threw |-> TRUE, canvas |-> NoCanvas],
                [threw |-> FALSE, canvas |-> canvas]}

\* The requests createQrCode is called for: content the encoder encodes or
\* not, without and with a logo, with a valid and an invalid size.
Requests ==
  {"renders", "render-fails", "logo", "logo-corrupt", "size-zero",
   "size-negative", "size-nan"}
JobOf(request) ==
  LET grid == {<<0, 0>>, <<2, 2>>, <<3, 2>>}
  IN CASE request = "render-fails" -> Job(Size(400), 4, {}, "none", FALSE)
       [] request = "logo" -> Job(Size(400), 4, grid, "png", TRUE)
       [] request = "logo-corrupt" -> Job(Size(400), 4, grid, "corrupt", TRUE)
       [] request = "size-zero" -> Job(Size(0), 4, grid, "none", TRUE)
       [] request = "size-negative" -> Job(Size(-400), 4, grid, "none", TRUE)
       [] request = "size-nan" -> Job(NaNSize, 4, grid, "none", TRUE)
       [] OTHER -> Job(Size(400), 4, grid, "none", TRUE)

\* An HTTP response: its status code, the error and upgradeRequired fields of
\* its body, whether it carries image bytes, and the message field of its
\* body; code 0 when there is none.
NoResponse ==
  [code |-> 0, error |-> "-", upgradeRequired |-> FALSE, image |-> FALSE,
   message |-> "-"]

Idle ==
  [op |-> "none", pc |-> "done", user |-> "-", arg |-> "-", phase |-> 0,
   sid |-> 0, limits |-> "-", info |-> NoInfo, found |-> FALSE, day |-> 0,
   render |-> "-",
   todo |-> <<>>, can |-> NoResult, status |-> "-", cur0 |-> 0,
   exp0 |-> FALSE, expired |-> {},
   route |-> "-", kind |-> "-", count |-> 0, seen |-> 0, format |-> "-",
   owner |-> "-", watermark |-> FALSE, response |-> NoResponse,
   job |-> NoJob, canvas |-> NoCanvas, data |-> NoData, content |-> <<>>,
   at |-> 0, email |-> <<>>, password |-> <<>>, token |-> NoToken,
   expiresAt |-> NoDate]

ResetRequestedRevealing(st) ==
  IF st = "200 no account"
  THEN [NoResponse EXCEPT !.code = 404, !.error = "No account with that email"]
  ELSE [NoResponse EXCEPT !.code = 200,
                          !.message = "A password reset link has been sent."]

\* requestPasswordReset: the res.json without a user and the one after the
\* token is created.
ResetRequested(st) ==
  [NoResponse EXCEPT
     !.code = 200,
     !.message = "If an account with that email exists, a password reset link has been sent."]

\* What a route answers when its handler ends with st.
\* POST /api/qr/generate: the 403 of checkSubscriptionAccess, the 400 and the
\* 403 of the handler, res.json on success, and the catch, which answers 500
\* with the message of the error thrown.
\* GET /api/qr/:id/download/:format: 404, 403, res.send, and the catch.
\* The routes of AuthController: each res.status(...).json(...) of the handler.
Response(r, st) ==
  LET answer(code, error, upgrade) ==
        [code |-> code, error |-> error, upgradeRequired |-> upgrade,
         image |-> code = 200, message |-> "-"]
      failure(code, error) == [NoResponse EXCEPT !.code = code, !.error = error]
      success(code, message) ==
        [NoResponse EXCEPT !.code = code, !.message = message]
  IN CASE r.route = "generate" ->
            CASE st = "403 Email verification required" ->
                   answer(403, "Email verification required", FALSE)
              [] st = "403 No active subscription found" ->
                   answer(403, "No active subscription found", FALSE)
              [] st = "403 Trial expired" -> answer(403, "Trial expired", FALSE)
              [] st = "400" ->
                   answer(400, "QR type and content are required", FALSE)
              [] st = "403 logo" ->
                   answer(403, r.can.reason, r.can.upgradeRequired)
              [] st = "threw" ->
                   answer(500, IF r.can.allowed THEN "error.message"
                               ELSE r.can.reason, FALSE)
              [] OTHER -> answer(200, "-", FALSE)
       [] r.route = "download" ->
            CASE st = "404" -> answer(404, "QR code not found", FALSE)
              [] st = "403 format" ->
                   answer(403, "export not available in your plan", TRUE)
              [] st = "threw" -> answer(500, "Failed to download QR code", FALSE)
              [] OTHER -> answer(200, "-", FALSE)
       [] r.route = "register" ->
            CASE st = "400 required" ->
                   failure(400, "Email and password are required")
              [] st = "400 password" ->
                   failure(400, "Password does not meet requirements")
              [] st = "409" -> failure(409, "User already exists with this email")
              [] st = "500" -> failure(500, "Failed to register user")
              [] OTHER -> success(201, "User registered successfully. Please check your email for verification.")
       [] r.route = "verify-email" ->
            CASE st = "400 invalid" -> failure(400, "Invalid verification token")
              [] st = "400 expired" ->
                   failure(400, "Verification token has expired")
              [] st = "500" -> failure(500, "Failed to verify email")
              [] OTHER -> success(200, "Email verified successfully")
       [] r.route = "request-password-reset" ->
            CASE st = "400" -> failure(400, "Email is required")
              [] st = "500" ->
                   failure(500, "Failed to process password reset request")
              [] OTHER -> ResetRequested(st)
       [] r.route = "reset-password" ->
            CASE st = "400 required" ->
                   failure(400, "Token and new password are required")
              [] st = "400 password" ->
                   failure(400, "Password does not meet requirements")
              [] st = "400 invalid" -> failure(400, "Invalid reset token")
              [] st = "400 expired" -> failure(400, "Reset token has expired")
              [] st = "500" -> failure(500, "Failed to reset password")
              [] OTHER -> success(200, "Password reset successfully")
       [] OTHER -> NoResponse

\* A finished request: what it returned, without its other locals.
Done(r, st) ==
  [r EXCEPT !.pc = "done", !.status = st, !.phase = 0, !.sid = 0,
            !.found = FALSE, !.todo = <<>>, !.password = <<>>,
            !.response = Response(r, st)]

\* now has reached the trialEnd of a trial row.
ExpiredTrialRow(row, t) ==
  row.planType = "TRIAL" /\ row.trialEnd # NoDate /\ t >= row.trialEnd

\* A call as it is made: its arguments and, for the record, the user's
\* current subscription at that moment (cur0) and whether that is a trial
\* whose trialEnd has been reached (exp0).  A request also records the users
\* whose trial row it has set to EXPIRED (expired).
Begin(op, u, arg, phase) ==
  LET c == FindFirst(u, Current)
  IN [Idle EXCEPT !.op = op, !.pc = "gsi_find", !.user = u, !.arg = arg,
                  !.phase = phase, !.cur0 = c,
                  !.exp0 = (c # 0 /\ ExpiredTrialRow(subs[c], now))]

\* canPerformAction has its result: it returns it, and createQrCode goes on
\* to render or throws the reason.
CanReturn(r, res) ==
  IF r.op = "createQrCode"
  THEN IF res.allowed
       THEN [r EXCEPT !.can = res, !.pc = "cq_create"]
       ELSE Done([r EXCEPT !.can = res], "threw")
  ELSE IF r.route = "generate"
       THEN \* the logo check of the route: 403, or on to createQrCode
            IF res.allowed
            THEN [r EXCEPT !.op = "createQrCode", !.arg = "qr_generated",
                           !.phase = 1, !.pc = "gsi_find", !.sid = 0,
                           !.limits = "-", !.info = NoInfo]
            ELSE Done([r EXCEPT !.can = res], "403 logo")
       ELSE Done([r EXCEPT !.can = res], "returned")

OverQuotaStrict(current, quota) == current > quota

\* if (currentUsage >= limit) deny
OverQuota(current, quota) == current >= quota

GateSteps == {"gsi_find", "exp_update", "exp_create", "can_usage", "can_count"}

UnlimitedNever(quota) == FALSE

\* if (limit !== -1) the counter is checked
Unlimited(quota) == quota = -1

LogoDeniedNever(limits) == FALSE

\* if (!limits.logoUploads) deny
LogoDenied(limits) == ~limits.logoUploads

NotAvailableNever(quota) == FALSE

\* if (limit === 0) deny: the feature is not part of the plan
NotAvailable(quota) == quota = 0

\* canPerformAction after its two awaits: the trial check and the switch, up
\* to the next await (the usage aggregate or the dynamic-code count).
AfterInfo(r) ==
  LET limits == PLAN_LIMITS[r.limits]
      a == r.arg
  IN IF r.info.present /\ r.info.planType = "TRIAL" /\ ~r.info.isTrialActive
     THEN CanReturn(r, Deny("Trial has expired"))
     ELSE CASE a = "logo_upload" ->
                 IF LogoDenied(limits)
                 THEN CanReturn(r, Deny("Logo uploads not available in your plan"))
                 ELSE CanReturn(r, Allowed)
            [] a = "qr_generated" ->
                 IF ~Unlimited(limits.qrCodesPerMonth)
                 THEN [r EXCEPT !.pc = "can_usage"]
                 ELSE CanReturn(r, Allowed)
            [] a = "api_call" ->
                 IF NotAvailable(limits.apiCallsPerMonth)
                 THEN CanReturn(r, Deny("API access not available in your plan"))
                 ELSE IF ~Unlimited(limits.apiCallsPerMonth)
                      THEN [r EXCEPT !.pc = "can_usage"]
                      ELSE CanReturn(r, Allowed)
            [] OTHER ->
                 IF NotAvailable(limits.dynamicQrCodes)
                 THEN CanReturn(r, Deny("Dynamic QR codes not available in your plan"))
                 ELSE IF ~Unlimited(limits.dynamicQrCodes)
                      THEN [r EXCEPT !.pc = "can_count"]
                      ELSE CanReturn(r, Allowed)

ExportsAny(limits, format) == TRUE

\* planLimits.exportFormats.includes(format)
Exports(limits, format) == format \in limits.exportFormats

\* getPlanLimits returns: to its caller, or to the download route, which
\* answers 403 when the plan does not export the format and renders else.
LimitsReturn(r) ==
  IF r.route = "download"
  THEN IF Exports(PLAN_LIMITS[r.limits], r.format)
       THEN [r EXCEPT !.op = "download", !.pc = "dl_render"]
       ELSE Done([r EXCEPT !.op = "download"], "403 format")
  ELSE Done(r, "returned")

\* getSubscriptionInfo returns info to its caller: to the route, to
\* getPlanLimits, or to canPerformAction, which calls it twice (phase 1
\* through getPlanLimits, phase 2 directly).
GsiReturn(r, info) ==
  CASE r.op = "getSubscriptionInfo" ->
         Done([r EXCEPT !.info = info], "returned")
    [] r.op = "getPlanLimits" ->
         LimitsReturn([r EXCEPT !.info = info, !.limits = LimitsPlan(info)])
    [] OTHER ->
         IF r.phase = 1
         THEN [r EXCEPT !.limits = LimitsPlan(info), !.phase = 2,
                        !.pc = "gsi_find", !.sid = 0, !.info = NoInfo]
         ELSE AfterInfo([r EXCEPT !.info = info, !.sid = 0])

\* getSubscriptionInfo: the findFirst resolves; the info is computed from the
\* row as read and from the clock; an ended trial read as TRIALING goes on to
\* expireTrial.
GsiStep(r) ==
  LET i == FindFirst(r.user, Current)
  IN IF i = 0
     THEN GsiReturn(r, NoInfo)
     ELSE IF MustExpire(subs[i], now)
          THEN [r EXCEPT !.sid = i, !.info = InfoOf(subs[i], now),
                         !.pc = "exp_update"]
          ELSE GsiReturn(r, InfoOf(subs[i], now))

\* expireTrial returns: to getSubscriptionInfo, or to the loop of
\* processExpiredTrials.
ExpireReturn(r) ==
  IF r.op = "processExpiredTrials"
  THEN IF r.todo = <<>>
       THEN Done(r, "returned")
       ELSE [r EXCEPT !.sid = Head(r.todo), !.todo = Tail(r.todo),
                      !.pc = "exp_update"]
  ELSE GsiReturn(r, r.info)

CancelActiveOnly(S, u) ==
  [i \in 1..Len(S) |->
     IF S[i].userId = u /\ S[i].status = "ACTIVE"
     THEN [S[i] EXCEPT !.status = "CANCELED"]
     ELSE S[i]]

\* subscription.updateMany({where: {userId, status in Current}, CANCELED})
CancelCurrent(S, u) ==
  [i \in 1..Len(S) |->
     IF S[i].userId = u /\ S[i].status \in Current
     THEN [S[i] EXCEPT !.status = "CANCELED"]
     ELSE S[i]]

ExpiredTrialsAll(S, t) ==
  {i \in 1..Len(S) : S[i].planType = "TRIAL" /\ S[i].status = "TRIALING"}

\* processExpiredTrials: the rows findMany returns.
ExpiredTrials(S, t) ==
  {i \in 1..Len(S) :
     /\ S[i].planType = "TRIAL" /\ S[i].status = "TRIALING"
     /\ S[i].trialEnd # NoDate /\ S[i].trialEnd < t}

RECURSIVE Ascending(_)
Ascending(S) ==
  IF S = {} THEN <<>>
  ELSE LET m == CHOOSE x \in S : \A y \in S : x <= y
       IN <<m>> \o Ascending(S \ {m})

\* checkSubscriptionAccess: if (now > subscription.trialEnd)
MwExpired(row, t) ==
  row.planType = "TRIAL" /\ row.trialEnd # NoDate /\ t > row.trialEnd

QrRowDynamic(u, t) ==
  [userId |-> u, isDynamic |-> TRUE, isActive |-> TRUE, createdAt |-> MonthOf(DayOf(t))]

QrRow(u, t) ==
  [userId |-> u, isDynamic |-> FALSE, isActive |-> TRUE, createdAt |-> MonthOf(DayOf(t))]

\* The codes stored before the requests observed: one of each user.
StoredCodes == SetToBag({QrRow(u, 0) : u \in Users})

UpsertedCreateOnly(U, k, c) == U @@ (k :> c)

\* The row an upsert leaves: count incremented, or created with the count.
Upserted(U, k, c) ==
  IF k \in DOMAIN U THEN [U EXCEPT ![k] = @ + c] ELSE U @@ (k :> c)

Ready(p) == proc[p].pc = "done"
At(p, pc) == proc[p].pc = pc
InFlight(op) == Cardinality({q \in Procs : proc[q].op = op})

\* Request p goes on as r; when r has finished, p is free again and r is
\* what the step returned.
Set(p, r) ==
  IF r.pc = "done"
  THEN proc' = [proc EXCEPT ![p] = Idle] /\ ret' = r
  ELSE proc' = [proc EXCEPT ![p] = r] /\ ret' = Idle

\* ----------------------------------------------------------------- actions
\* Time passes, up to one of the instants T.
Elapse(T) ==
  /\ \E t \in T : t > now /\ now' = t
  /\ ret' = Idle
  /\ UNCHANGED <<users, tokens, subs, usage, qrCodes, proc>>

Advance == Elapse(TimePoints)

\* --- AuthController.register: the checks of the body, then
\* prisma.user.findUnique({where: {email: email.toLowerCase()}}): 409 when
\* the user exists.
Register(p, email, password) ==
  /\ Ready(p) /\ now <= RegisterBy
  /\ LET r == [Idle EXCEPT !.op = "register", !.route = "register",
                           !.email = ToLowerCase(email),
                           !.password = password]
     IN Set(p, IF email = <<>> \/ password = <<>>
               THEN Done(r, "400 required")
               ELSE IF ~ValidatePassword(password).isValid
                    THEN Done(r, "400 password")
                    ELSE IF FindByEmail(r.email) # {}
                         THEN Done(r, "409")
                         ELSE [r EXCEPT !.pc = "reg_create"])
  /\ UNCHANGED <<now, users, tokens, subs, usage, qrCodes>>

\* The id of a new row is a fresh cuid: the model names the new user after
\* its address when that name is free.
NewId(email) ==
  LET free == Users \ DOMAIN users
  IN IF \E u \in free : Address[u] = email
     THEN CHOOSE u \in free : Address[u] = email
     ELSE CHOOSE u \in free : TRUE

\* hashPassword, then prisma.user.create: the unique e-mail makes a second
\* create throw (500).
RegCreate(p) ==
  /\ At(p, "reg_create")
  /\ LET r == proc[p]
     IN IF FindByEmail(r.email) # {}
        THEN /\ Set(p, Done(r, "500"))
             /\ UNCHANGED users
        ELSE /\ Users \ DOMAIN users # {}
             /\ LET u == NewId(r.email)
                IN /\ users' = users @@
                                 (u :> [email |-> r.email,
                                        passwordHash |-> HashPassword(r.password),
                                        emailVerified |-> FALSE])
                   /\ Set(p, [r EXCEPT !.user = u, !.password = <<>>,
                                       !.pc = "reg_trial"])
  /\ UNCHANGED <<now, tokens, subs, usage, qrCodes>>

\* SubscriptionService.startTrial
StartTrial(u) == Append(subs, SubRow(u, "TRIAL", "TRIALING", now + TrialLen))

RegTrial(p) ==
  /\ At(p, "reg_trial")
  /\ subs' = StartTrial(proc[p].user)
  /\ Set(p, [proc[p] EXCEPT !.pc = "reg_token"])
  /\ UNCHANGED <<now, users, tokens, usage, qrCodes>>

\* generateSecureToken: crypto.randomBytes(32), a token never seen before.
GenerateSecureToken == issued + 1

\* generateEmailVerificationToken and emailVerifyToken.create; 201.
RegToken(p) ==
  /\ At(p, "reg_token")
  /\ issued' = GenerateSecureToken
  /\ emailVerifyToken' =
       emailVerifyToken \cup {[token |-> GenerateSecureToken,
                                userId |-> proc[p].user,
                                expiresAt |-> now + VerifyLen]}
  /\ Set(p, Done(proc[p], "201"))
  /\ UNCHANGED <<now, users, passwordResetToken, subs, usage, qrCodes>>

\* --- AuthController.verifyEmail: the findUnique of the token and the test
\* of its expiresAt; 400 for a token not stored and for one expired.
VerifyEmail(p, token) ==
  /\ Ready(p)
  /\ LET r == [Idle EXCEPT !.op = "verifyEmail", !.route = "verify-email",
                           !.token = token, !.at = now]
         found == FindToken(emailVerifyToken, token)
     IN Set(p, IF found = {}
               THEN Done(r, "400 invalid")
               ELSE LET verifyToken == CHOOSE row \in found : TRUE
                        v == [r EXCEPT !.user = verifyToken.userId,
                                       !.expiresAt = verifyToken.expiresAt]
                    IN IF TokenExpired(verifyToken, now)
                       THEN Done(v, "400 expired")
                       ELSE [v EXCEPT !.pc = "ve_update"])
  /\ UNCHANGED <<now, users, tokens, subs, usage, qrCodes>>

\* prisma.user.update({data: {emailVerified: true}})
VeUpdate(p) ==
  /\ At(p, "ve_update")
  /\ users' = [users EXCEPT ![proc[p].user].emailVerified = TRUE]
  /\ Set(p, [proc[p] EXCEPT !.pc = "ve_delete"])
  /\ UNCHANGED <<now, tokens, subs, usage, qrCodes>>

\* prisma.emailVerifyToken.delete: it throws when the row is gone (500).
VeDelete(p) ==
  /\ At(p, "ve_delete")
  /\ LET found == FindToken(emailVerifyToken, proc[p].token)
     IN /\ emailVerifyToken' = emailVerifyToken \ found
        /\ Set(p, Done(proc[p], IF found = {} THEN "500" ELSE "200"))
  /\ UNCHANGED <<now, users, passwordResetToken, issued, subs, usage, qrCodes>>

\* --- AuthController.requestPasswordReset: the findUnique of the user; with
\* a user, generatePasswordResetToken before the deleteMany is awaited.
RequestPasswordReset(p, email) ==
  /\ Ready(p)
  /\ LET r == [Idle EXCEPT !.op = "requestPasswordReset",
                           !.route = "request-password-reset",
                           !.email = ToLowerCase(email)]
         found == FindByEmail(r.email)
     IN IF email = <<>> \/ found = {}
        THEN /\ Set(p, Done(r, IF email = <<>> THEN "400" ELSE "200 no account"))
             /\ UNCHANGED issued
        ELSE /\ issued < MaxTokens
             /\ issued' = GenerateSecureToken
             /\ Set(p, [r EXCEPT !.user = CHOOSE u \in found : TRUE,
                                 !.token = GenerateSecureToken,
                                 !.expiresAt = now + ResetLen,
                                 !.pc = "rp_delete"])
  /\ UNCHANGED <<now, users, emailVerifyToken, passwordResetToken, subs,
                 usage, qrCodes>>

\* prisma.passwordResetToken.deleteMany({where: {userId}})
RpDelete(p) ==
  /\ At(p, "rp_delete")
  /\ passwordResetToken' =
       {row \in passwordResetToken : row.userId # proc[p].user}
  /\ Set(p, [proc[p] EXCEPT !.pc = "rp_create"])
  /\ UNCHANGED <<now, users, emailVerifyToken, issued, subs, usage, qrCodes>>

\* prisma.passwordResetToken.create; the same 200 as without a user.
RpCreate(p) ==
  /\ At(p, "rp_create")
  /\ passwordResetToken' =
       passwordResetToken \cup {[token |-> proc[p].token,
                                  userId |-> proc[p].user,
                                  expiresAt |-> proc[p].expiresAt]}
  /\ Set(p, Done(proc[p], "200 sent"))
  /\ UNCHANGED <<now, users, emailVerifyToken, issued, subs, usage, qrCodes>>

\* --- AuthController.resetPassword: the checks of the request, the findUnique
\* of the token and the test of its expiresAt.
ResetPassword(p, token, password) ==
  /\ Ready(p)
  /\ LET r == [Idle EXCEPT !.op = "resetPassword", !.route = "reset-password",
                           !.token = token, !.password = password, !.at = now]
         found == FindToken(passwordResetToken, token)
     IN Set(p, IF password = <<>>
               THEN Done(r, "400 required")
               ELSE IF ~ValidatePassword(password).isValid
                    THEN Done(r, "400 password")
                    ELSE IF found = {}
                         THEN Done(r, "400 invalid")
                         ELSE LET resetToken == CHOOSE row \in found : TRUE
                                  v == [r EXCEPT !.user = resetToken.userId,
                                                 !.expiresAt = resetToken.expiresAt]
                              IN IF TokenExpired(resetToken, now)
                                 THEN Done(v, "400 expired")
                                 ELSE [v EXCEPT !.pc = "rs_update"])
  /\ UNCHANGED <<now, users, tokens, subs, usage, qrCodes>>

\* hashPassword, then prisma.user.update({data: {passwordHash}})
RsUpdate(p) ==
  /\ At(p, "rs_update")
  /\ users' = [users EXCEPT ![proc[p].user].passwordHash =
                              HashPassword(proc[p].password)]
  /\ Set(p, [proc[p] EXCEPT !.pc = "rs_delete"])
  /\ UNCHANGED <<now, tokens, subs, usage, qrCodes>>

\* prisma.passwordResetToken.delete: it throws when the row is gone (500).
RsDelete(p) ==
  /\ At(p, "rs_delete")
  /\ LET found == FindToken(passwordResetToken, proc[p].token)
     IN /\ passwordResetToken' = passwordResetToken \ found
        /\ Set(p, Done(proc[p], IF found = {} THEN "500" ELSE "200"))
  /\ UNCHANGED <<now, users, emailVerifyToken, issued, subs, usage, qrCodes>>

\* --- getSubscriptionInfo / getPlanLimits / canPerformAction: the call, up to
\* the resolution of its first findFirst.
GetSubscriptionInfo(p, u) ==
  /\ Ready(p) /\ u \in DOMAIN users
  /\ Set(p, GsiStep(Begin("getSubscriptionInfo", u, "-", 0)))
  /\ UNCHANGED <<now, users, tokens, subs, usage, qrCodes>>

GetPlanLimits(p, u) ==
  /\ Ready(p) /\ u \in DOMAIN users
  /\ Set(p, GsiStep(Begin("getPlanLimits", u, "-", 0)))
  /\ UNCHANGED <<now, users, tokens, subs, usage, qrCodes>>

CanPerformAction(p, u, a) ==
  /\ Ready(p) /\ u \in DOMAIN users
  /\ Set(p, GsiStep(Begin("canPerformAction", u, a, 1)))
  /\ UNCHANGED <<now, users, tokens, subs, usage, qrCodes>>

\* The second getSubscriptionInfo of canPerformAction: its findFirst.
GsiFind(p) ==
  /\ At(p, "gsi_find")
  /\ Set(p, GsiStep(proc[p]))
  /\ UNCHANGED <<now, users, tokens, subs, usage, qrCodes>>

\* expireTrial: subscription.update({where: {id}, data: {status: EXPIRED}})
ExpireUpdate(p) ==
  /\ At(p, "exp_update")
  /\ subs' = [subs EXCEPT ![proc[p].sid].status = "EXPIRED"]
  /\ Set(p, [proc[p] EXCEPT !.pc = "exp_create",
                            !.expired = @ \cup {subs[proc[p].sid].userId}])
  /\ UNCHANGED <<now, users, tokens, usage, qrCodes>>

\* expireTrial: subscription.findUnique({where: {id}}) and then
\* subscription.create({userId, planType: FREE, status: ACTIVE}).  Rows are
\* never deleted and userId never changes, so the findUnique reads the same
\* whenever it runs; it is taken together with the create.
ExpireCreate(p) ==
  /\ At(p, "exp_create")
  /\ subs' = Append(subs, SubRow(subs[proc[p].sid].userId, "FREE", "ACTIVE", NoDate))
  /\ Set(p, ExpireReturn(proc[p]))
  /\ UNCHANGED <<now, users, tokens, usage, qrCodes>>

CanUsageCounting(p) ==
  /\ At(p, "can_usage")
  /\ LET r == proc[p]
         quota == Quota(PLAN_LIMITS[r.limits], r.arg)
         currentUsage == MonthlyUsage(r.user, ActionKind(r.arg), now)
     IN IF OverQuota(currentUsage, quota)
        THEN /\ Set(p, CanReturn(r, Deny(LimitReason(r.arg))))
             /\ UNCHANGED usage
        ELSE /\ Set(p, CanReturn(r, Allowed))
             /\ usage' = Upserted(usage, <<r.user, ActionKind(r.arg), DayOf(now)>>, 1)
  /\ UNCHANGED <<now, users, tokens, subs, qrCodes>>

\* canPerformAction: getCurrentMonthlyUsage resolves and is compared.
CanUsage(p) ==
  /\ At(p, "can_usage")
  /\ LET r == proc[p]
         quota == Quota(PLAN_LIMITS[r.limits], r.arg)
         currentUsage == MonthlyUsage(r.user, ActionKind(r.arg), now)
     IN Set(p, IF OverQuota(currentUsage, quota)
               THEN CanReturn(r, Deny(LimitReason(r.arg)))
               ELSE CanReturn(r, Allowed))
  /\ UNCHANGED <<now, users, tokens, subs, usage, qrCodes>>

\* --- getCurrentMonthlyUsage(userId, actionType) called on its own: now is
\* read and the month's bounds are computed as the call is made.
GetCurrentMonthlyUsage(p, u, kind) ==
  /\ Ready(p) /\ u \in DOMAIN users
  /\ Set(p, [Idle EXCEPT !.op = "getCurrentMonthlyUsage", !.user = u,
                         !.kind = kind, !.day = DayOf(now),
                         !.pc = "gmu_aggregate"])
  /\ UNCHANGED <<now, users, tokens, subs, usage, qrCodes>>

\* getCurrentMonthlyUsage: the aggregate resolves; usage._sum.count || 0.
GmuAggregate(p) ==
  /\ At(p, "gmu_aggregate")
  /\ LET r == proc[p]
     IN Set(p, Done([r EXCEPT !.seen = MonthlyUsage(r.user, r.kind, r.day * DAY)],
                    "returned"))
  /\ UNCHANGED <<now, users, tokens, subs, usage, qrCodes>>

\* canPerformAction: the count of active dynamic codes resolves.
CanCount(p) ==
  /\ At(p, "can_count")
  /\ LET r == proc[p]
         quota == PLAN_LIMITS[r.limits].dynamicQrCodes
     IN Set(p, IF OverQuota(DynamicCount(r.user), quota)
               THEN CanReturn(r, Deny(LimitReason(r.arg)))
               ELSE CanReturn(r, Allowed))
  /\ UNCHANGED <<now, users, tokens, subs, usage, qrCodes>>

\* --- QrCodeService.createQrCode(userId, ...): canPerformAction first; render
\* says whether generateStyledQrCode will succeed for the given content.
CreateQrCodeCall(p, u, render) ==
  /\ Ready(p) /\ u \in DOMAIN users
  /\ Set(p, GsiStep([Begin("createQrCode", u, "qr_generated", 1)
                       EXCEPT !.render = render]))
  /\ UNCHANGED <<now, users, tokens, subs, usage, qrCodes>>

\* The same, started while fewer than MaxQrCodes rows are stored or on their
\* way.
CreateQrCode(p, u, render) ==
  /\ BagCardinality(qrCodes) + InFlight("createQrCode") < MaxQrCodes
  /\ CreateQrCodeCall(p, u, render)

\* generateQrContent and generateStyledQrCode (which touch no shared state),
\* then prisma.qrCode.create; trackUsage is called next and fixes its day.
CqCreate(p) ==
  /\ At(p, "cq_create")
  /\ LET r == proc[p]
     IN \E res \in GenerateStyledQrCode(JobOf(r.render)) :
          IF res.threw
          THEN /\ Set(p, Done(r, "threw"))
               /\ UNCHANGED qrCodes
          ELSE /\ qrCodes' = qrCodes (+) SetToBag({QrRow(r.user, now)})
               /\ Set(p, [r EXCEPT !.pc = "tu_upsert", !.day = DayOf(now),
                                    !.kind = "QR_GENERATED", !.count = 1,
                                    !.canvas = res.canvas])
  /\ UNCHANGED <<now, users, tokens, subs, usage>>

\* --- QrCodeService.generateStyledQrCode(content, styleConfig, logoBuffer),
\* called and suspended at await QRCode.create: it runs to its end.
Render(p) ==
  /\ At(p, "render")
  /\ \E res \in GenerateStyledQrCode(proc[p].job) :
       Set(p, Done([proc[p] EXCEPT !.canvas = res.canvas],
                   IF res.threw THEN "threw" ELSE "returned"))
  /\ UNCHANGED <<now, users, tokens, subs, usage, qrCodes>>

\* --- QrCodeService.generateQrContent(data): synchronous.
Content(p) ==
  /\ At(p, "content")
  /\ Set(p, Done([proc[p] EXCEPT !.content = GenerateQrContent(proc[p].data)],
                 "returned"))
  /\ UNCHANGED <<now, users, tokens, subs, usage, qrCodes>>

\* --- trackUsage(userId, actionType, count): today is fixed as the call is
\* made; the upsert is awaited.
TrackUsage(p, u, kind, count) ==
  /\ Ready(p) /\ u \in DOMAIN users
  /\ Tracked(u, kind) + count <= MaxTracked
  /\ Set(p, [Idle EXCEPT !.op = "trackUsage", !.user = u, !.kind = kind,
                         !.count = count, !.day = DayOf(now),
                         !.pc = "tu_upsert"])
  /\ UNCHANGED <<now, users, tokens, subs, usage, qrCodes>>

\* trackUsage: prisma.usageTracking.upsert.  Prisma runs it as one native
\* INSERT .. ON CONFLICT DO UPDATE, or as a SELECT followed by an INSERT or an
\* UPDATE, depending on its version and on the query.
TrackUpsert(p) ==
  /\ At(p, "tu_upsert")
  /\ LET r == proc[p]
         k == <<r.user, r.kind, r.day>>
     IN \E mode \in {"native", "select"} :
          IF mode = "native"
          THEN /\ usage' = Upserted(usage, k, r.count)
               /\ Set(p, Done(r, "returned"))
          ELSE /\ Set(p, [r EXCEPT !.found = (k \in DOMAIN usage),
                                   !.pc = "tu_write"])
               /\ UNCHANGED usage
  /\ UNCHANGED <<now, users, tokens, subs, qrCodes>>

\* The second statement of a SELECT-then-write upsert: UPDATE count = count +
\* 1 when the row was found, else INSERT, which the unique key
\* (userId, actionType, date) rejects when the row exists by now.
TrackWrite(p) ==
  /\ At(p, "tu_write")
  /\ LET r == proc[p]
         k == <<r.user, r.kind, r.day>>
     IN IF r.found
        THEN /\ usage' = [usage EXCEPT ![k] = @ + r.count]
             /\ Set(p, Done(r, "returned"))
        ELSE IF k \in DOMAIN usage
             THEN /\ Set(p, Done(r, "threw"))
                  /\ UNCHANGED usage
             ELSE /\ usage' = usage @@ (k :> r.count)
                  /\ Set(p, Done(r, "returned"))
  /\ UNCHANGED <<now, users, tokens, subs, qrCodes>>

\* --- upgradeSubscription(userId, newPlanType): the updateMany.
UpgradeSubscription(p, u, plan) ==
  /\ Ready(p) /\ u \in DOMAIN users
  /\ Len(subs) + InFlight("upgradeSubscription") < MaxSubs
  /\ subs' = CancelCurrent(subs, u)
  /\ Set(p, [Idle EXCEPT !.op = "upgradeSubscription", !.user = u,
                         !.arg = plan, !.pc = "upg_create"])
  /\ UNCHANGED <<now, users, tokens, usage, qrCodes>>

\* upgradeSubscription: subscription.create({userId, planType, ACTIVE})
UpgCreate(p) ==
  /\ At(p, "upg_create")
  /\ subs' = Append(subs, SubRow(proc[p].user, proc[p].arg, "ACTIVE", NoDate))
  /\ Set(p, Done(proc[p], "returned"))
  /\ UNCHANGED <<now, users, tokens, usage, qrCodes>>

\* --- processExpiredTrials: the findMany, then expireTrial row by row.
ProcessExpiredTrials(p) ==
  /\ Ready(p)
  /\ LET r == [Idle EXCEPT !.op = "processExpiredTrials", !.at = now,
                           !.todo = Ascending(ExpiredTrials(subs, now))]
     IN Set(p, ExpireReturn(r))
  /\ UNCHANGED <<now, users, tokens, subs, usage, qrCodes>>

\* --- checkSubscriptionAccess (middleware): the findFirst over ACTIVE and
\* TRIALING rows.
CheckSubscriptionAccess(p, u) ==
  /\ Ready(p) /\ u \in DOMAIN users
  /\ LET r == [Idle EXCEPT !.op = "checkSubscriptionAccess", !.user = u]
         i == FindFirst(u, {"ACTIVE", "TRIALING"})
     IN Set(p, IF i = 0
               THEN Done(r, "403 No active subscription found")
               ELSE IF MwExpired(subs[i], now)
                    THEN [r EXCEPT !.sid = i, !.pc = "mw_update"]
                    ELSE Done(r, "next"))
  /\ UNCHANGED <<now, users, tokens, subs, usage, qrCodes>>

\* checkSubscriptionAccess: subscription.update({status: EXPIRED}), then 403.
MwUpdate(p) ==
  /\ At(p, "mw_update")
  /\ subs' = [subs EXCEPT ![proc[p].sid].status = "EXPIRED"]
  /\ Set(p, Done([proc[p] EXCEPT !.expired = @ \cup {subs[proc[p].sid].userId}],
                 "403 Trial expired"))
  /\ UNCHANGED <<now, users, tokens, usage, qrCodes>>

\* --- POST /api/qr/generate, for an authenticated user:
\* requireEmailVerification answers 403 unless the user row authenticateToken
\* has read is verified, then checkSubscriptionAccess runs, its findFirst as
\* above (no step writes both the user table and the subscription table, so
\* the two reads are taken together).  The request is the body and file
\* sent: "incomplete" lacks qrType or content.
GenerateRoute(p, u, request) ==
  /\ Ready(p) /\ u \in DOMAIN users
  /\ Cardinality({q \in Procs : proc[q].route = "generate"})
       + BagCardinality(qrCodes) < MaxQrCodes + BagCardinality(StoredCodes)
  /\ LET r == [Idle EXCEPT !.op = "checkSubscriptionAccess", !.user = u,
                           !.route = "generate", !.render = request]
         i == FindFirst(u, {"ACTIVE", "TRIALING"})
     IN Set(p, IF ~users[u].emailVerified
               THEN Done(r, "403 Email verification required")
               ELSE IF i = 0
                    THEN Done(r, "403 No active subscription found")
                    ELSE IF MwExpired(subs[i], now)
                         THEN [r EXCEPT !.sid = i, !.pc = "mw_update"]
                         ELSE [r EXCEPT !.pc = "gen_body"])
  /\ UNCHANGED <<now, users, tokens, subs, usage, qrCodes>>

\* The handler after upload.single('logo'): 400 without qrType or content,
\* the logo check when a file was sent, createQrCode else; each up to the
\* first findFirst of canPerformAction.
GenBody(p) ==
  /\ At(p, "gen_body")
  /\ LET r == proc[p]
         call(op, a) ==
           GsiStep([Begin(op, r.user, a, 1)
                      EXCEPT !.route = r.route, !.render = r.render])
     IN Set(p, IF r.render = "incomplete"
               THEN Done(r, "400")
               ELSE IF HasLogo(JobOf(r.render))
                    THEN call("canPerformAction", "logo_upload")
                    ELSE call("createQrCode", "qr_generated"))
  /\ UNCHANGED <<now, users, tokens, subs, usage, qrCodes>>

\* --- GET /api/qr/:id/download/:format, for an authenticated user: the
\* qrCode.findFirst({where: {id, userId}}) for an id that is the id of a
\* code of owner, or of no code ("nobody"); 404, or on to getPlanLimits.
\* stored is the request the code was created for.
DownloadRoute(p, u, owner, format, stored) ==
  /\ Ready(p) /\ u \in DOMAIN users
  /\ owner = "nobody" \/ \E c \in BagToSet(qrCodes) : c.userId = owner
  /\ Tracked(u, "QR_DOWNLOADED") < MaxTracked
  /\ LET r == [Begin("getPlanLimits", u, "-", 0)
                 EXCEPT !.route = "download", !.owner = owner,
                        !.format = format, !.render = stored]
     IN Set(p, IF owner # u
               THEN Done([r EXCEPT !.op = "download"], "404")
               ELSE r)
  /\ UNCHANGED <<now, users, tokens, subs, usage, qrCodes>>

\* The download after the format check: generateStyledQrCode with the
\* stored content and style (no logo buffer), convertToFormat with the
\* plan's watermark flag, then trackUsage(userId, 'QR_DOWNLOADED').  An
\* image of a size that is not a positive number may make sharp throw.
DlRender(p) ==
  /\ At(p, "dl_render")
  /\ LET r == proc[p]
         job == [JobOf(r.render) EXCEPT !.logo = "none"]
     IN \E res \in GenerateStyledQrCode(job),
           converts \in IF PositiveSize(job.size) THEN {TRUE} ELSE BOOLEAN :
          Set(p, IF res.threw \/ ~converts
                 THEN Done(r, "threw")
                 ELSE [r EXCEPT !.canvas = res.canvas,
                                !.watermark = PLAN_LIMITS[r.limits].watermark,
                                !.kind = "QR_DOWNLOADED", !.count = 1,
                                !.day = DayOf(now), !.pc = "tu_upsert"])
  /\ UNCHANGED <<now, users, tokens, subs, usage, qrCodes>>

\* ---------------------------------------------------------- specifications
RegisterOps(p, U) ==
  \/ \E u \in U : Register(p, Address[u], Strong)
  \/ RegCreate(p)
  \/ RegTrial(p)
  \/ RegToken(p)

ExpireSteps(p) ==
  \/ ExpireUpdate(p)
  \/ ExpireCreate(p)

GateOps(p, U) ==
  \/ \E u \in U : GetPlanLimits(p, u)
  \/ \E u \in U, a \in GateActions : CanPerformAction(p, u, a)
  \/ GsiFind(p)
  \/ CanUsage(p)
  \/ CanCount(p)

QrOps(p, U) ==
  \/ \E u \in U, render \in {"renders", "render-fails"} : CreateQrCode(p, u, render)
  \/ GsiFind(p)
  \/ CanUsage(p)
  \/ CqCreate(p)
  \/ TrackUpsert(p)
  \/ TrackWrite(p)

LifecycleOps(p, U, plans) ==
  \/ \E u \in U : GetSubscriptionInfo(p, u)
  \/ \E u \in U, plan \in plans : UpgradeSubscription(p, u, plan)
  \/ UpgCreate(p)
  \/ ProcessExpiredTrials(p)
  \/ \E u \in U : CheckSubscriptionAccess(p, u)
  \/ MwUpdate(p)

Init ==
  /\ now = 0
  /\ users = <<>>
  /\ NoTokens
  /\ subs = <<>>
  /\ usage = <<>>
  /\ qrCodes = EmptyBag
  /\ proc = [p \in Procs |-> Idle]
  /\ ret = Idle

\* The subscription lifecycle of one user under concurrent requests.
Next ==
  \/ Advance
  \/ \E p \in Procs :
       \/ RegisterOps(p, OneUser)
       \/ LifecycleOps(p, OneUser, {"PRO"})
       \/ \E u \in OneUser : GetPlanLimits(p, u)
       \/ ExpireSteps(p)
Spec == Init /\ [][Next]_vars

\* The subscription lifecycle of two users, one request at a time.
NextSeq ==
  \/ Advance
  \/ \E p \in SeqProcs :
       \/ RegisterOps(p, Users)
       \/ LifecycleOps(p, Users, PaidPlans)
       \/ ExpireSteps(p)
SpecSeq == Init /\ [][NextSeq]_vars

\* A registered user in the first days of the trial.
InitTrial ==
  /\ now = 0
  /\ users = [u \in OneUser |-> Account(u)]
  /\ NoTokens
  /\ subs = <<SubRow("u1", "TRIAL", "TRIALING", TrialLen)>>
  /\ usage = <<>>
  /\ qrCodes = EmptyBag
  /\ proc = [p \in Procs |-> Idle]
  /\ ret = Idle

\* Concurrent reads of one user's subscription, and nothing else.
NextReads ==
  \/ Advance
  \/ \E p \in Procs :
       \/ \E u \in OneUser : GetSubscriptionInfo(p, u)
       \/ GateOps(p, OneUser)
       \/ ExpireSteps(p)
SpecReads == InitTrial /\ [][NextReads]_vars

\* Upgrades of a registered user concurrent with reads of the subscription
\* and with the sweep of expired trials.
NextUpgrade ==
  \/ Advance
  \/ \E p \in Procs :
       \/ \E u \in OneUser : GetSubscriptionInfo(p, u)
       \/ \E u \in OneUser : GetPlanLimits(p, u)
       \/ ProcessExpiredTrials(p)
       \/ ExpireSteps(p)
       \/ \E u \in OneUser, plan \in {"PRO", "BUSINESS"} :
            UpgradeSubscription(p, u, plan)
       \/ UpgCreate(p)
SpecUpgrade == InitTrial /\ [][NextUpgrade]_vars

\* The sweep of expired trials, one request at a time, over the rows two
\* users' registrations, upgrades and middleware checks leave; a sweep that
\* has started goes on (each await of its loop resolves).
NextSweep ==
  \/ Advance
  \/ \E p \in SeqProcs :
       \/ RegisterOps(p, Users)
       \/ \E u \in Users : UpgradeSubscription(p, u, "PRO")
       \/ UpgCreate(p)
       \/ \E u \in Users : CheckSubscriptionAccess(p, u)
       \/ MwUpdate(p)
       \/ ProcessExpiredTrials(p)
       \/ ExpireSteps(p)
SpecSweep ==
  Init /\ [][NextSweep]_vars /\ WF_vars(\E p \in SeqProcs : ExpireSteps(p))

\* Password resets of one registered user under concurrent requests: the
\* requests name the user's address in either case or an address nobody
\* has registered, and bring a token and a new password.
ResetAddresses == {Address["u1"], <<"A", "@", "x">>, Address["u2"], <<>>}
ResetPasswords == {Changed, NoSpecial, <<>>}
NextReset ==
  \/ Advance
  \/ \E p \in Procs :
       \/ \E email \in ResetAddresses : RequestPasswordReset(p, email)
       \/ RpDelete(p)
       \/ RpCreate(p)
       \/ \E token \in 1..MaxTokens, password \in ResetPasswords :
            ResetPassword(p, token, password)
       \/ RsUpdate(p)
       \/ RsDelete(p)
SpecReset == InitTrial /\ [][NextReset]_vars

\* Registration, e-mail verification and POST /api/qr/generate of one user
\* under concurrent requests, up to the instant after the verification
\* token expires; the requests bring the token registration created or one
\* that was never generated.
VerifyPoints == {VerifyLen - 1, VerifyLen, VerifyLen + 1}
VerifyTokens == {1, MaxTokens}
NextVerify ==
  \/ Elapse(VerifyPoints)
  \/ \E p \in Procs :
       \/ RegisterOps(p, OneUser)
       \/ \E token \in VerifyTokens : VerifyEmail(p, token)
       \/ VeUpdate(p)
       \/ VeDelete(p)
       \/ \E u \in OneUser : GenerateRoute(p, u, "renders")
       \/ GenBody(p)
       \/ GsiFind(p)
       \/ CanUsage(p)
       \/ CqCreate(p)
       \/ TrackUpsert(p)
       \/ TrackWrite(p)
SpecVerify == Init /\ [][NextVerify]_vars

\* Concurrent registrations: two addresses, one of them also in capitals,
\* and a missing one, with passwords that pass validatePassword and
\* passwords that do not.
RegisterAddresses == {Address["u1"], <<"A", "@", "x">>, Address["u2"], <<>>}
RegisterPasswords == {Strong, NoSpecial, Short, <<>>}
NextRegister ==
  \E p \in Procs :
    \/ \E email \in RegisterAddresses, password \in RegisterPasswords :
         Register(p, email, password)
    \/ RegCreate(p)
    \/ RegTrial(p)
    \/ RegToken(p)
SpecRegister == Init /\ [][NextRegister]_vars

\* Concurrent createQrCode calls of one user.
NextQr ==
  \/ Advance
  \/ \E p \in Procs :
       \/ QrOps(p, OneUser)
       \/ ExpireSteps(p)
SpecQr == InitTrial /\ [][NextQr]_vars

\* Concurrent createQrCode and canPerformAction calls of one user.
NextUse ==
  \/ Advance
  \/ \E p \in Procs :
       \/ QrOps(p, OneUser)
       \/ \E u \in OneUser, a \in GateActions : CanPerformAction(p, u, a)
       \/ CanCount(p)
       \/ ExpireSteps(p)
SpecUse == InitTrial /\ [][NextUse]_vars

\* The renderer on its own: grids of three sides with every choice of dark
\* modules among cells in, on the edge of and outside the logo area, with
\* and without a logo, in valid and invalid sizes.
GridSides == {4, 5, 8}
ProbeCells(n) ==
  {<<0, 0>>, <<n - 1, n - 1>>, <<n \div 2, 0>>, <<n \div 2, n \div 2>>,
   <<(3 * n) \div 8, (3 * n) \div 8>>, <<(5 * n) \div 8, n \div 2>>,
   <<(5 * n) \div 8 + 1, n \div 2>>}
SizeInputs == {Size(400), Size(7), Size(0), Size(-400), NaNSize}
LogoInputs == {"none", "png", "corrupt"}
RenderJobs ==
  UNION {{Job(size, n, dark, logo, TRUE) :
            size \in SizeInputs, dark \in SUBSET ProbeCells(n),
            logo \in LogoInputs} : n \in GridSides}
    \cup {Job(Size(400), 4, {}, "none", FALSE)}
InitRender ==
  \E job \in RenderJobs :
    /\ now = 0
    /\ users = <<>>
    /\ NoTokens
    /\ subs = <<>>
    /\ usage = <<>>
    /\ qrCodes = EmptyBag
    /\ proc = [p \in Procs |->
                 IF p \in SeqProcs
                 THEN [Idle EXCEPT !.op = "generateStyledQrCode",
                                   !.pc = "render", !.job = job]
                 ELSE Idle]
    /\ ret = Idle
NextRender == \E p \in SeqProcs : Render(p)
SpecRender == InitRender /\ [][NextRender]_vars

\* The content generator on its own, for WIFI and SOCIAL data with each
\* optional field undefined, empty and set, and for the other types.
Texts == {<<>>, <<"H", "o", "m", "e">>, <<"p", "w", "1", "2", "3">>}
Handles ==
  {<<>>, <<"b", "o", "b">>, <<"@", "b", "o", "b">>, <<"b", "@", "b">>,
   <<"@", "@", "b">>, <<"@", "b", "@">>}
Platforms ==
  {<<name>> : name \in DOMAIN socialUrls} \cup {<<>>, <<"mastodon">>, <<"Twitter">>}
Optional(S) == {Undefined} \cup {Some(str) : str \in S}
ContentInputs ==
  {[NoData EXCEPT !.qrType = "WIFI", !.wifiSecurity = sec, !.wifiSsid = ssid,
                  !.wifiPassword = pw, !.wifiHidden = hidden] :
     sec \in Optional({<<>>, <<"WPA">>, <<"WEP">>, <<"nopass">>}),
     ssid \in Optional(Texts), pw \in Optional(Texts),
     hidden \in {"undefined", "true", "false"}}
  \cup {[NoData EXCEPT !.qrType = "SOCIAL", !.socialPlatform = platform,
                       !.socialHandle = handle] :
          platform \in Optional(Platforms), handle \in Optional(Handles)}
  \cup {[NoData EXCEPT !.qrType = type, !.content = text,
                       !.phoneNumber = Some(text), !.reviewUrl = Some(text)] :
          type \in {"PHONE", "REVIEW", "TEXT", "URL"}, text \in Texts}
InitContent ==
  \E data \in ContentInputs :
    /\ now = 0
    /\ users = <<>>
    /\ NoTokens
    /\ subs = <<>>
    /\ usage = <<>>
    /\ qrCodes = EmptyBag
    /\ proc = [p \in Procs |->
                 IF p \in SeqProcs
                 THEN [Idle EXCEPT !.op = "generateQrContent",
                                   !.pc = "content", !.data = data]
                 ELSE Idle]
    /\ ret = Idle
NextContent == \E p \in SeqProcs : Content(p)
SpecContent == InitContent /\ [][NextContent]_vars

\* The gate on its own: one user in each state of the subscription lifecycle,
\* with a counter at, next to and far from each quota.
FiniteQuotas ==
  UNION {{PLAN_LIMITS[pl].qrCodesPerMonth, PLAN_LIMITS[pl].dynamicQrCodes,
          PLAN_LIMITS[pl].apiCallsPerMonth} : pl \in DOMAIN PLAN_LIMITS}
    \ {-1, 0}
CountInputs ==
  {0, BigCount} \cup UNION {{q - 1, q, q + 1} : q \in FiniteQuotas}
Trial(status) == SubRow("u1", "TRIAL", status, TrialLen)
GateHistories ==
  {[t |-> TrialLen - 1, rows |-> <<>>],
   [t |-> TrialLen - 1, rows |-> <<Trial("TRIALING")>>],
   [t |-> TrialLen + 1, rows |-> <<Trial("EXPIRED")>>],
   [t |-> TrialLen, rows |-> <<Trial("EXPIRED"),
                               SubRow("u1", "FREE", "ACTIVE", NoDate)>>],
   [t |-> MonthLen - 1, rows |-> <<Trial("EXPIRED"),
                                   SubRow("u1", "FREE", "ACTIVE", NoDate)>>]}
  \cup {[t |-> TrialLen - 1,
         rows |-> <<Trial("CANCELED"), SubRow("u1", pl, "ACTIVE", NoDate)>>] :
          pl \in PaidPlans}
DynamicRow(active) ==
  [userId |-> "u1", isDynamic |-> TRUE, isActive |-> active, createdAt |-> 0]

InitGate ==
  \E h \in GateHistories, kind \in {"QR_GENERATED", "API_CALL", "DYNAMIC"},
     c \in CountInputs, split \in BOOLEAN :
    /\ now = h.t
    /\ users = [u \in OneUser |-> Account(u)]
    /\ NoTokens
    /\ subs = h.rows
    /\ usage =
         (<<"u1", "QR_DOWNLOADED", 0>> :> 3) @@
         (IF kind = "DYNAMIC" \/ c = 0
          THEN <<>>
          ELSE IF split /\ c >= 2
               THEN (<<"u1", kind, 0>> :> 1) @@ (<<"u1", kind, DayOf(h.t)>> :> c - 1)
               ELSE <<"u1", kind, DayOf(h.t)>> :> c)
    /\ qrCodes =
         IF kind = "DYNAMIC"
         THEN (DynamicRow(FALSE) :> 1) @@ (QrRow("u1", 0) :> 1) @@
              (IF c = 0 THEN EmptyBag ELSE DynamicRow(TRUE) :> c)
         ELSE EmptyBag
    /\ proc = [p \in Procs |-> Idle]
    /\ ret = Idle

NextGate ==
  \/ Advance
  \/ \E p \in SeqProcs :
       \/ GateOps(p, OneUser)
       \/ \E u \in OneUser, kind \in {"QR_GENERATED", "API_CALL", "QR_DOWNLOADED"} :
            GetCurrentMonthlyUsage(p, u, kind)
       \/ GmuAggregate(p)
       \/ ExpireSteps(p)
SpecGate == InitGate /\ [][NextGate]_vars

\* Concurrent createQrCode calls of a user at, one below and two below the
\* monthly quota of the plan (FREE, or the running trial); the quota
\* itself ends the creation of rows.
InitQuota ==
  \E h \in {[plan |-> "FREE",
              rows |-> <<Trial("EXPIRED"), SubRow("u1", "FREE", "ACTIVE", NoDate)>>],
             [plan |-> "TRIAL", rows |-> <<Trial("TRIALING")>>]},
     below \in {0, 1, 2} :
    LET c == PLAN_LIMITS[h.plan].qrCodesPerMonth - below
    IN /\ now = TrialLen - 1
       /\ users = [u \in OneUser |-> Account(u)]
       /\ NoTokens
       /\ subs = h.rows
       /\ usage = <<"u1", "QR_GENERATED", DayOf(now)>> :> c
       /\ qrCodes = QrRow("u1", now) :> c
       /\ proc = [p \in Procs |-> Idle]
       /\ ret = Idle
NextQuota ==
  \E p \in Procs :
    \/ \E u \in OneUser : CreateQrCodeCall(p, u, "renders")
    \/ GsiFind(p)
    \/ CanUsage(p)
    \/ CqCreate(p)
    \/ TrackUpsert(p)
    \/ TrackWrite(p)
SpecQuota == InitQuota /\ [][NextQuota]_vars

\* The two routes for one user, one request at a time, from each state of the subscription lifecycle with the month's
\* QR_GENERATED counter at and next to the FREE and TRIAL quotas.
RouteRequests == Requests \cup {"incomplete"}
Formats == {"png", "jpg", "gif"}
InitRoute ==
  \E h \in GateHistories, c \in {0, 9, 10, 99, 100} :
    /\ now = h.t
    /\ users = [u \in OneUser |-> Account(u)]
    /\ NoTokens
    /\ subs = h.rows
    /\ usage = IF c = 0 THEN <<>> ELSE <<"u1", "QR_GENERATED", DayOf(h.t)>> :> c
    /\ qrCodes = StoredCodes
    /\ proc = [p \in Procs |-> Idle]
    /\ ret = Idle

NextRoute ==
  \/ Advance
  \/ \E p \in SeqProcs :
       \/ \E u \in OneUser, request \in RouteRequests :
            GenerateRoute(p, u, request)
       \/ GenBody(p)
       \/ MwUpdate(p)
       \/ GsiFind(p)
       \/ ExpireSteps(p)
       \/ CanUsage(p)
       \/ CqCreate(p)
       \/ \E u \in OneUser, owner \in Users \cup {"nobody"},
             format \in Formats, stored \in {"renders", "size-zero"} :
            DownloadRoute(p, u, owner, format, stored)
       \/ DlRender(p)
       \/ TrackUpsert(p)
       \/ TrackWrite(p)
SpecRoute == InitRoute /\ [][NextRoute]_vars

\* Everything that touches the usage counters, one request at a time:
\* trackUsage, createQrCode, downloads, canPerformAction, upgrades and the
\* expiry of the trial.
InitCount ==
  /\ now = TrialLen - 1
  /\ users = [u \in OneUser |-> Account(u)]
  /\ NoTokens
  /\ subs = <<Trial("TRIALING")>>
  /\ usage = <<>>
  /\ qrCodes = EmptyBag
  /\ proc = [p \in Procs |-> Idle]
  /\ ret = Idle
NextCount ==
  \/ Advance
  \/ \E p \in SeqProcs :
       \/ \E u \in OneUser, kind \in {"QR_GENERATED", "API_CALL"},
             count \in {1, 2} : TrackUsage(p, u, kind, count)
       \/ TrackUpsert(p)
       \/ TrackWrite(p)
       \/ \E u \in OneUser : CreateQrCode(p, u, "renders")
       \/ CqCreate(p)
       \/ \E u \in OneUser : DownloadRoute(p, u, u, "png", "renders")
       \/ DlRender(p)
       \/ \E u \in OneUser, a \in GateActions : CanPerformAction(p, u, a)
       \/ GsiFind(p)
       \/ CanUsage(p)
       \/ CanCount(p)
       \/ ExpireSteps(p)
       \/ \E u \in OneUser : UpgradeSubscription(p, u, "PRO")
       \/ UpgCreate(p)
SpecCount == InitCount /\ [][NextCount]_vars


\* ------------------------------------------------------------------ claims
Quiescent == \A p \in Procs : Ready(p)

\* The sum of the user's counter rows of a kind dated in the month of now.
MonthTotal(u, kind) ==
  SumOver(usage, {k \in DOMAIN usage :
                    k[1] = u /\ k[2] = kind /\ MonthOf(k[3]) = MonthOf(DayOf(now))})

\* The number of the user's dynamic codes that are active.
ActiveDynamic(u) ==
  SumOver(qrCodes, {r \in DOMAIN qrCodes :
                      r.userId = u /\ r.isDynamic /\ r.isActive})

UsageSeen(u, a) ==
  CASE a = "qr_generated" -> MonthTotal(u, "QR_GENERATED")
    [] a = "api_call" -> MonthTotal(u, "API_CALL")
    [] OTHER -> ActiveDynamic(u)

PlanQuota(plan, a) ==
  CASE a = "qr_generated" -> PLAN_LIMITS[plan].qrCodesPerMonth
    [] a = "api_call" -> PLAN_LIMITS[plan].apiCallsPerMonth
    [] OTHER -> PLAN_LIMITS[plan].dynamicQrCodes

FreeActive(u) ==
  {i \in 1..Len(subs) :
     subs[i].userId = u /\ subs[i].planType = "FREE" /\ subs[i].status = "ACTIVE"}
ExpiredTrialsOf(u) ==
  {i \in 1..Len(subs) :
     subs[i].userId = u /\ subs[i].planType = "TRIAL" /\ subs[i].status = "EXPIRED"}

\* C1: a canPerformAction call made when the user's current subscription is
\* a trial whose trialEnd has been reached returns allowed = false with
\* reason 'Trial has expired' and upgradeRequired = true, for every action.
TrialExpiredDenies ==
  (ret.op = "canPerformAction" /\ ret.exp0) =>
    ret.can = [allowed |-> FALSE, reason |-> "Trial has expired",
               upgradeRequired |-> TRUE]

\* C2: every user has at most one subscription row whose status is ACTIVE,
\* TRIALING or PAST_DUE.
OneCurrentSubscription ==
  \A u \in Users :
    Cardinality({i \in 1..Len(subs) :
                   subs[i].userId = u
                   /\ subs[i].status \in {"ACTIVE", "TRIALING", "PAST_DUE"}}) <= 1

\* C3: once all calls have finished, the QR_GENERATED total of the current
\* month is at least the number of qrCode rows created for the user in that
\* month.
UsageNeverUndercounts ==
  Quiescent =>
    \A u \in Users :
      MonthTotal(u, "QR_GENERATED") >=
        SumOver(qrCodes, {r \in DOMAIN qrCodes :
                            r.userId = u /\ r.createdAt = MonthOf(DayOf(now))})

\* C4: when the user's trial has not ended and the plan's quota Q for the
\* action is finite and positive, canPerformAction returns allowed = true
\* exactly when the current usage is below Q.
QuotaBoundary ==
  (ret.op = "canPerformAction" /\ ret.cur0 # 0 /\ ret.arg # "logo_upload") =>
    LET row == subs[ret.cur0]
        q == PlanQuota(row.planType, ret.arg)
    IN (q > 0 /\ ~ExpiredTrialRow(row, now)) =>
         (ret.can.allowed <=> UsageSeen(ret.user, ret.arg) < q)

\* A call is denied with the usage exactly at the quota.
QuotaBoundaryReached ==
  /\ ret.op = "canPerformAction" /\ ret.cur0 # 0 /\ ret.arg = "api_call"
  /\ subs[ret.cur0].planType = "TRIAL" /\ ~ExpiredTrialRow(subs[ret.cur0], now)
  /\ UsageSeen(ret.user, ret.arg) = 1000
  /\ Cardinality(DOMAIN usage) = 3
  /\ ~ret.can.allowed

\* C5: when a request has set a trial row to EXPIRED, a FREE row with status
\* ACTIVE exists for that user once the request has completed.
ExpiredTrialGetsFree ==
  \A u \in ret.expired : FreeActive(u) # {}

\* C6: once the reads of a user whose trial has ended have finished, there
\* is exactly one EXPIRED trial row and exactly one FREE ACTIVE row.
ReadExpiryIdempotent ==
  (Quiescent /\ ExpiredTrialsOf("u1") # {}) =>
    /\ Cardinality(ExpiredTrialsOf("u1")) = 1
    /\ Cardinality(FreeActive("u1")) = 1

\* C7: upgradeSubscription(user, P), not interleaved: its updateMany sets
\* the user's ACTIVE, TRIALING and PAST_DUE rows to CANCELED and changes no
\* other row; its create appends one row (user, P, ACTIVE), changes no other
\* row, and leaves that row the user's only current one.
UpgradeFrame ==
  [][\A p \in Procs :
       /\ (proc[p].op # "upgradeSubscription" /\ proc'[p].op = "upgradeSubscription") =>
            /\ Len(subs') = Len(subs)
            /\ \A i \in 1..Len(subs) :
                 subs'[i] =
                   IF subs[i].userId = proc'[p].user
                      /\ subs[i].status \in {"ACTIVE", "TRIALING", "PAST_DUE"}
                   THEN [subs[i] EXCEPT !.status = "CANCELED"]
                   ELSE subs[i]
       /\ (proc[p].op = "upgradeSubscription" /\ proc'[p].op # "upgradeSubscription") =>
            /\ ret'.op = "upgradeSubscription"
            /\ Len(subs') = Len(subs) + 1
            /\ \A i \in 1..Len(subs) : subs'[i] = subs[i]
            /\ subs'[Len(subs')].userId = proc[p].user
            /\ subs'[Len(subs')].planType = proc[p].arg
            /\ subs'[Len(subs')].status = "ACTIVE"
            /\ \A i \in 1..Len(subs) :
                 subs[i].userId = proc[p].user =>
                   subs[i].status \in {"CANCELED", "EXPIRED"}
    ]_vars

\* An upgrade has returned for a user who had an expired trial and a FREE
\* row, while the other user is still in the trial.
UpgradeFrameReached ==
  /\ ret.op = "upgradeSubscription"
  /\ \E i, j \in 1..Len(subs) :
       /\ subs[i].userId = ret.user /\ subs[i].status = "EXPIRED"
       /\ subs[j].userId = ret.user /\ subs[j].status = "CANCELED"
       /\ subs[j].planType = "FREE"
  /\ \E i \in 1..Len(subs) :
       subs[i].userId # ret.user /\ subs[i].status = "TRIALING"

\* C8: for a user whose current subscription is ENTERPRISE, canPerformAction
\* returns allowed = true for every action, whatever the counters hold.
EnterpriseAlwaysAllowed ==
  (ret.op = "canPerformAction" /\ ret.cur0 # 0
   /\ subs[ret.cur0].planType = "ENTERPRISE") => ret.can.allowed

\* An ENTERPRISE user is allowed an API call with the counter at 10,000,000.
EnterpriseAllowedReached ==
  /\ ret.op = "canPerformAction" /\ ret.cur0 # 0 /\ ret.arg = "api_call"
  /\ subs[ret.cur0].planType = "ENTERPRISE"
  /\ MonthTotal(ret.user, "API_CALL") = BigCount
  /\ ret.can.allowed

\* C9: for a user whose current subscription is FREE,
\* canPerformAction(user, logo_upload) returns allowed = false with
\* upgradeRequired = true.
FreeNoLogoUpload ==
  (ret.op = "canPerformAction" /\ ret.arg = "logo_upload" /\ ret.cur0 # 0
   /\ subs[ret.cur0].planType = "FREE") =>
    (~ret.can.allowed /\ ret.can.upgradeRequired)

\* A FREE user with a counter above the quota is denied the logo upload.
FreeNoLogoUploadReached ==
  /\ ret.op = "canPerformAction" /\ ret.arg = "logo_upload" /\ ret.cur0 # 0
  /\ subs[ret.cur0].planType = "FREE"
  /\ MonthTotal(ret.user, "QR_GENERATED") = BigCount
  /\ ~ret.can.allowed

\* What canPerformAction answers under the FREE limits.
FreeDecision(u, a) ==
  CASE a = "logo_upload" -> Deny("Logo uploads not available in your plan")
    [] a = "api_call" -> Deny("API access not available in your plan")
    [] a = "dynamic_qr" -> Deny("Dynamic QR codes not available in your plan")
    [] OTHER -> IF MonthTotal(u, "QR_GENERATED") < PLAN_LIMITS.FREE.qrCodesPerMonth
                THEN Allowed
                ELSE Deny("Monthly QR code limit reached")

\* C10: for a user with no ACTIVE, TRIALING or PAST_DUE row, getPlanLimits
\* returns the FREE limits and canPerformAction answers every action as it
\* does for a user whose current subscription is FREE.
NoSubscriptionIsFree ==
  /\ (ret.op = "getPlanLimits" /\ ret.cur0 = 0) =>
       PLAN_LIMITS[ret.limits] = PLAN_LIMITS.FREE
  /\ (ret.op = "canPerformAction"
      /\ (ret.cur0 = 0 \/ subs[ret.cur0].planType = "FREE")) =>
       ret.can = FreeDecision(ret.user, ret.arg)

\* A user whose only row is an EXPIRED trial is allowed a QR code with the
\* counter one below the FREE quota.
NoSubscriptionReached ==
  /\ ret.op = "canPerformAction" /\ ret.cur0 = 0 /\ ret.arg = "qr_generated"
  /\ Len(subs) = 1 /\ subs[1].status = "EXPIRED"
  /\ MonthTotal(ret.user, "QR_GENERATED") = 9
  /\ ret.can.allowed

\* The plan a call finds the user on: that of the current row, FREE without.
PlanAtCall(r) == IF r.cur0 = 0 THEN "FREE" ELSE subs[r.cur0].planType

\* C11: when the plan's quota for api_call or dynamic_qr is 0,
\* canPerformAction answers that the feature is not available in the plan,
\* with upgradeRequired = true, whatever the counter or the number of active
\* dynamic codes; when logoUploads is false it answers logo_upload likewise.
ZeroQuotaDenies ==
  ret.op = "canPerformAction" =>
    LET plan == PlanAtCall(ret)
    IN /\ (ret.arg = "api_call" /\ PLAN_LIMITS[plan].apiCallsPerMonth = 0) =>
            ret.can = [allowed |-> FALSE, upgradeRequired |-> TRUE,
                       reason |-> "API access not available in your plan"]
       /\ (ret.arg = "dynamic_qr" /\ PLAN_LIMITS[plan].dynamicQrCodes = 0) =>
            ret.can = [allowed |-> FALSE, upgradeRequired |-> TRUE,
                       reason |-> "Dynamic QR codes not available in your plan"]
       /\ (ret.arg = "logo_upload" /\ ~PLAN_LIMITS[plan].logoUploads) =>
            ret.can = [allowed |-> FALSE, upgradeRequired |-> TRUE,
                       reason |-> "Logo uploads not available in your plan"]

\* A FREE user with no active dynamic code is denied a dynamic code.
ZeroQuotaDeniesReached ==
  /\ ret.op = "canPerformAction" /\ ret.arg = "dynamic_qr"
  /\ ret.cur0 # 0 /\ subs[ret.cur0].planType = "FREE"
  /\ ActiveDynamic(ret.user) = 0 /\ BagCardinality(qrCodes) = 2
  /\ ~ret.can.allowed /\ ret.can.upgradeRequired

\* A step of canPerformAction was taken: a call returned, or a request is
\* left inside canPerformAction, or createQrCode has its answer.
GateStepTaken ==
  \/ ret'.op = "canPerformAction"
  \/ ret'.op = "createQrCode" /\ ret'.status = "threw" /\ ~ret'.can.allowed
  \/ \E p \in Procs :
       /\ proc'[p] # proc[p]
       /\ proc'[p].op \in {"canPerformAction", "createQrCode"}
       /\ proc'[p].pc \in GateSteps \cup {"cq_create"}

\* C12: no step of canPerformAction, for any action and whether it allows or
\* denies, changes a usage counter or a qrCode row; a step that changes a
\* usage counter is a step of trackUsage.
GateReadsOnly ==
  [][/\ GateStepTaken => (usage' = usage /\ qrCodes' = qrCodes)
     /\ usage' # usage =>
          \E p \in Procs : proc[p].pc \in {"tu_upsert", "tu_write"}
                            /\ proc'[p] # proc[p]
    ]_vars

\* canPerformAction has allowed a QR code to a user who has two codes and a
\* counter of one, while a createQrCode is about to count the second.
GateReadsOnlyReached ==
  /\ ret.op = "canPerformAction" /\ ret.arg = "qr_generated" /\ ret.can.allowed
  /\ MonthTotal(ret.user, "QR_GENERATED") = 1
  /\ BagCardinality(qrCodes) = 2
  /\ \E p \in Procs : proc[p].op = "createQrCode" /\ proc[p].pc = "tu_upsert"

\* The top-left corner of module <<col, row>> of a grid of side n lies in the
\* centred square of side a quarter of the canvas: 3/8 <= col / n <= 5/8,
\* and likewise for row.
InKeepOut(n, c) ==
  /\ 3 * n <= 8 * c[1] /\ 8 * c[1] <= 5 * n
  /\ 3 * n <= 8 * c[2] /\ 8 * c[2] <= 5 * n

\* C19: generateStyledQrCode with a valid size paints, each once and at
\* (col * size / n, row * size / n), exactly the dark modules when no logo
\* is given, and exactly the dark modules whose corner lies outside the
\* keep-out square when a logo is given; it paints no light module.
PaintsDarkModules ==
  (ret.op = "generateStyledQrCode" /\ ret.status = "returned"
   /\ ~ret.job.size.nan /\ ret.job.size.v > 0) =>
    LET job == ret.job
        painted == ret.canvas.painted
        expected == IF job.logo = "none" THEN job.dark
                    ELSE {c \in job.dark : ~InKeepOut(job.n, c)}
    IN /\ {<<painted[i].col, painted[i].row>> : i \in DOMAIN painted} = expected
       /\ Len(painted) = Cardinality(expected)
       /\ \A i \in DOMAIN painted :
            /\ painted[i].xn = painted[i].col * job.size.v
            /\ painted[i].yn = painted[i].row * job.size.v

\* A grid of side 8 with a logo: the dark modules at (3,3) and (5,4), on the
\* edge of the keep-out square, and at (4,4) are skipped, the four others
\* are painted.
PaintsDarkModulesReached ==
  /\ ret.op = "generateStyledQrCode" /\ ret.status = "returned"
  /\ ret.job.n = 8 /\ ret.job.logo = "png" /\ ret.job.size = Size(400)
  /\ ret.job.dark = ProbeCells(8)
  /\ Len(ret.canvas.painted) = 4
\* The request that has just finished is a POST /api/qr/generate whose
\* createQrCode got a denial of qr_generated from canPerformAction.
GenerateDenied(r) ==
  /\ r.route = "generate" /\ r.op = "createQrCode"
  /\ ~r.can.allowed /\ r.can # NoResult

\* C13: when canPerformAction denies qr_generated during POST
\* /api/qr/generate, the route answers with a response that is not a 500,
\* carries the reason of the denial and upgradeRequired = true, and the
\* step that answers creates no qrCode row.
GateDenialIsUpgradeResponse ==
  [][GenerateDenied(ret') =>
       /\ ret'.response.code # 500
       /\ ret'.response.error = ret'.can.reason
       /\ ret'.response.upgradeRequired
       /\ qrCodes' = qrCodes]_vars

\* Request p completes a trackUsage in this step: the upsert, or the write
\* of an upsert run as two statements, returns.
TrackReturns(p) ==
  /\ proc[p].pc \in {"tu_upsert", "tu_write"}
  /\ proc'[p].pc = "done" /\ ret'.status = "returned"

\* C14: no step of trackUsage, createQrCode, a download, canPerformAction,
\* upgradeSubscription or expireTrial deletes a usage counter row or lowers
\* its count; a trackUsage that returns has created the row of its user,
\* kind and day with its count when there was none, has added its count to
\* it when there was one, and has left every other row as it was.
CountersMonotonic ==
  [][/\ \A k \in DOMAIN usage : k \in DOMAIN usage' /\ usage'[k] >= usage[k]
     /\ \A p \in Procs :
          TrackReturns(p) =>
            LET r == proc[p]
                key == <<r.user, r.kind, r.day>>
            IN /\ DOMAIN usage' = DOMAIN usage \cup {key}
               /\ usage'[key] = IF key \in DOMAIN usage
                                THEN usage[key] + r.count
                                ELSE r.count
               /\ \A k \in DOMAIN usage \ {key} : usage'[k] = usage[k]]_vars

\* A trackUsage has added 1 to a row that held 1, after a download was
\* counted and after the trial was expired.
CountersMonotonicReached ==
  /\ ret.op = "trackUsage" /\ ret.status = "returned" /\ ret.count = 1
  /\ <<"u1", ret.kind, ret.day>> \in DOMAIN usage
  /\ usage[<<"u1", ret.kind, ret.day>>] = 2
  /\ \E k \in DOMAIN usage : k[2] = "QR_DOWNLOADED"
  /\ \E i \in DOMAIN subs : subs[i].status = "EXPIRED"

\* The counts of the user's rows of a kind dated in calendar month m.
RowsOfMonth(u, kind, m) ==
  {k \in DOMAIN usage :
     k[1] = u /\ k[2] = kind
     /\ k[3] >= m * DaysPerMonth /\ k[3] < (m + 1) * DaysPerMonth}

\* C15: getCurrentMonthlyUsage returns the sum of the counts of the user's
\* rows of the kind dated in the calendar month of the now it read, and
\* nothing of other months; so a user with a finite positive quota and no
\* row in the current month is allowed qr_generated and api_call whatever
\* the rows of earlier months hold.
MonthlyWindow ==
  /\ ret.op = "getCurrentMonthlyUsage" =>
       ret.seen = SumOver(usage, RowsOfMonth(ret.user, ret.kind, MonthOf(ret.day)))
  /\ (/\ ret.op = "canPerformAction" /\ ret.cur0 # 0
      /\ ret.arg \in {"qr_generated", "api_call"}
      /\ PlanQuota(subs[ret.cur0].planType, ret.arg) > 0
      /\ ~ExpiredTrialRow(subs[ret.cur0], now)
      /\ RowsOfMonth(ret.user, ActionKind(ret.arg), MonthOf(DayOf(now))) = {})
       => ret.can.allowed

\* After the month has turned, a FREE user whose rows of the first and of
\* the last day of the month before hold the whole quota of 10 is allowed
\* qr_generated, with those rows still stored.
MonthlyWindowReached ==
  /\ now = MonthLen
  /\ Tracked("u1", "QR_GENERATED") = PLAN_LIMITS.FREE.qrCodesPerMonth
  /\ RowsOfMonth("u1", "QR_GENERATED", 0) =
       {<<"u1", "QR_GENERATED", 0>>, <<"u1", "QR_GENERATED", DaysPerMonth - 1>>}
  /\ ret.op = "canPerformAction" /\ ret.arg = "qr_generated"
  /\ ret.cur0 # 0 /\ subs[ret.cur0].planType = "FREE"
  /\ ret.can.allowed

\* C16: for a request whose logo cannot be decoded, generateStyledQrCode
\* returns an image on which addLogoToCanvas has drawn nothing, createQrCode
\* stores one qrCode row, and when it returns the route answers 200 and the
\* day's QR_GENERATED row of the user has grown by one.
LogoFailureNonFatal ==
  [][\A p \in Procs :
       LET r == proc[p]
           key == <<r.user, "QR_GENERATED", r.day>>
       IN r.render = "logo-corrupt" =>
            /\ (At(p, "cq_create") /\ proc'[p] # r) =>
                 /\ proc'[p].pc = "tu_upsert"
                 /\ proc'[p].canvas.filled
                 /\ proc'[p].canvas.painted # <<>>
                 /\ proc'[p].canvas.logo = <<>>
                 /\ qrCodes' = qrCodes (+) SetToBag({QrRow(r.user, now)})
            /\ (r.pc \in {"tu_upsert", "tu_write"} /\ proc'[p].pc = "done") =>
                 /\ ret'.status = "returned"
                 /\ ret'.response.code = 200 /\ ret'.response.image
                 /\ key \in DOMAIN usage'
                 /\ usage'[key] =
                      (IF key \in DOMAIN usage THEN usage[key] ELSE 0) + 1
                 /\ qrCodes' = qrCodes]_vars

\* A generate request with an undecodable logo has been answered 200.
LogoFailureNonFatalReached ==
  /\ ret.route = "generate" /\ ret.render = "logo-corrupt"
  /\ ret.op = "createQrCode" /\ ret.status = "returned"
  /\ ret.response.code = 200
  /\ ret.canvas.logo = <<>> /\ ret.canvas.painted # <<>>
  /\ BagCardinality(qrCodes) = BagCardinality(StoredCodes) + 1

\* The subscription rows of a user.
RowsOf(S, u) == {i \in 1..Len(S) : S[i].userId = u}

\* The trial days left a read at t reports for a trial row, as the claim
\* bounds them: 0 from trialEnd on, 1..14 before.
TrialInfoAt(info, trialEnd, t) ==
  /\ info.isTrialActive <=> t < trialEnd
  /\ info.trialDaysLeft \in 0..TRIAL_DAYS
  /\ info.trialDaysLeft = 0 <=> t >= trialEnd

\* C17: the step of a registration that succeeds creates the only
\* subscription row of the new user, a TRIAL row with status TRIALING whose
\* trialEnd is 14 days after the instant of its creation; what
\* getSubscriptionInfo reports from a trial row has isTrialActive exactly
\* when now < trialEnd and trialDaysLeft in 0..14, 0 exactly when now >=
\* trialEnd; and from the start of the trial on, no instant has more days
\* left than the instant before it.
TrialContract ==
  /\ [][\A p \in Procs :
          (At(p, "reg_trial") /\ proc'[p] # proc[p]) =>
            LET u == proc[p].user
            IN /\ At(p, "reg_token")'
               /\ RowsOf(subs, u) = {}
               /\ subs' = Append(subs, [userId |-> u, planType |-> "TRIAL",
                                          status |-> "TRIALING",
                                          trialEnd |-> now + TRIAL_DAYS * DAY])]_vars
  /\ [](/\ (/\ ret.op = "getSubscriptionInfo" /\ ret.info.present
             /\ ret.info.planType = "TRIAL") =>
              \E i \in RowsOf(subs, ret.user) :
                /\ subs[i].planType = "TRIAL"
                /\ TrialInfoAt(ret.info, subs[i].trialEnd, now)
        /\ \A i \in 1..Len(subs) :
             subs[i].planType = "TRIAL" =>
               \A t \in (subs[i].trialEnd - TRIAL_DAYS * DAY)..MonthLen :
                 /\ TrialInfoAt(InfoOf(subs[i], t), subs[i].trialEnd, t)
                 /\ InfoOf(subs[i], t + 1).trialDaysLeft
                      <= InfoOf(subs[i], t).trialDaysLeft)

\* A user who registered is told one day left on the last tick of the trial.
TrialContractReached ==
  /\ ret.op = "getSubscriptionInfo" /\ ret.info.planType = "TRIAL"
  /\ ret.info.isTrialActive /\ ret.info.trialDaysLeft = 1
  /\ Cardinality(RowsOf(subs, ret.user)) = 1
  /\ \E i \in RowsOf(subs, ret.user) : now = subs[i].trialEnd - 1

\* C18: a download is answered with image bytes only when the code is the
\* user's and the format is in the exportFormats of the plan of the user's
\* current row (FREE without one); a code that is not the user's is answered
\* 404 and a format not exported 403; a download answered with bytes was
\* converted with the watermark flag set when the plan has watermark = true
\* and has added exactly one to the day's QR_DOWNLOADED row of the user; no
\* other step of a download, and no download answered otherwise, changes a
\* counter.
DownloadContract ==
  [][/\ ret'.route = "download" =>
          LET r == ret'
              plan == PLAN_LIMITS[PlanAtCall(r)]
              mine == r.owner = r.user
              exported == r.format \in plan.exportFormats
              key == <<r.user, "QR_DOWNLOADED", r.day>>
          IN /\ r.response.image => mine /\ exported
             /\ ~mine => r.response.code = 404
             /\ (mine /\ ~exported) => r.response.code = 403
             /\ r.response.image =>
                  /\ plan.watermark => r.watermark
                  /\ DOMAIN usage' = DOMAIN usage \cup {key}
                  /\ usage'[key] =
                       (IF key \in DOMAIN usage THEN usage[key] ELSE 0) + 1
                  /\ \A k \in DOMAIN usage \ {key} : usage'[k] = usage[k]
             /\ ~r.response.image => usage' = usage
     /\ \A p \in Procs :
          (proc[p].route = "download" /\ proc'[p].pc # "done") =>
            usage' = usage]_vars

\* A user on FREE, or without a current row, has downloaded a PNG of a code
\* of theirs: it was watermarked and counted once.
DownloadContractReached ==
  /\ ret.route = "download" /\ ret.response.image
  /\ PlanAtCall(ret) = "FREE" /\ ret.format = "png"
  /\ ret.watermark
  /\ Tracked(ret.user, "QR_DOWNLOADED") = 1

\* The requests whose size is zero, negative or not a number.
InvalidSizes == {"size-zero", "size-negative", "size-nan"}

\* C20: createQrCode for a style whose size is zero, negative or not a
\* number fails when it comes to render: the request ends with an error and
\* without an image, and no qrCode row and no usage counter is written.
InvalidSizeRejected ==
  [][\A p \in Procs :
       (/\ proc[p].render \in InvalidSizes
        /\ At(p, "cq_create") /\ proc'[p] # proc[p]) =>
         /\ proc'[p].pc = "done"
         /\ ret'.status = "threw" /\ ~ret'.response.image
         /\ qrCodes' = qrCodes /\ usage' = usage]_vars

\* An optional string as the claims read it: empty when absent.
TextOf(field) == IF field.set THEN field.v ELSE <<>>

\* C21: for WIFI data generateQrContent returns
\* 'WIFI:T:<security>;S:<ssid>;P:<password>;H:<true|false>;;' with security
\* 'WPA' when unset, an absent ssid or password empty, and H 'true' only
\* when wifiHidden is true.
WifiContent ==
  (ret.op = "generateQrContent" /\ ret.data.qrType = "WIFI") =>
    LET d == ret.data
        security == IF TextOf(d.wifiSecurity) = <<>> THEN <<"WPA">>
                    ELSE d.wifiSecurity.v
        h == IF d.wifiHidden = "true" THEN "true" ELSE "false"
    IN ret.content =
         <<"WIFI:T:">> \o security \o <<";S:">> \o TextOf(d.wifiSsid)
           \o <<";P:">> \o TextOf(d.wifiPassword) \o <<";H:", h, ";;">>

\* ssid 'Home', password 'pw123', no security and hidden = true have given
\* 'WIFI:T:WPA;S:Home;P:pw123;H:true;;'.
WifiContentReached ==
  /\ ret.op = "generateQrContent" /\ ret.data.qrType = "WIFI"
  /\ ret.data.wifiSecurity = Undefined /\ ret.data.wifiHidden = "true"
  /\ ret.data.wifiSsid = Some(<<"H", "o", "m", "e">>)
  /\ ret.data.wifiPassword = Some(<<"p", "w", "1", "2", "3">>)
  /\ ret.content = <<"WIFI:T:", "WPA", ";S:", "H", "o", "m", "e", ";P:",
                     "p", "w", "1", "2", "3", ";H:", "true", ";;">>

\* The handle without a leading '@'.
StripLeadingAt(str) ==
  IF str # <<>> /\ Head(str) = "@" THEN Tail(str) ELSE str

\* C22: for SOCIAL data generateQrContent returns the base URL of the
\* platform, the twitter one when the platform is missing or not one of the
\* seven, followed by the handle without its leading '@', every other '@'
\* kept.
SocialContent ==
  (ret.op = "generateQrContent" /\ ret.data.qrType = "SOCIAL") =>
    LET d == ret.data
        name == TextOf(d.socialPlatform)
        known == Len(name) = 1 /\ name[1] \in
                   {"twitter", "instagram", "facebook", "linkedin",
                    "youtube", "tiktok", "github"}
        base == IF known THEN socialUrls[name[1]] ELSE socialUrls.twitter
    IN ret.content = base \o StripLeadingAt(TextOf(d.socialHandle))

\* C23: for a user whose current plan has a finite monthly quota Q of QR
\* codes, neither the number of qrCode rows of the user created in the
\* month of now nor the month's QR_GENERATED total exceeds Q.
QuotaNeverExceeded ==
  \A u \in DOMAIN users :
    LET c == FindFirst(u, Current)
        q == PLAN_LIMITS[IF c = 0 THEN "FREE" ELSE subs[c].planType].qrCodesPerMonth
    IN q >= 0 =>
         /\ MonthTotal(u, "QR_GENERATED") <= q
         /\ SumOver(qrCodes, {r \in DOMAIN qrCodes :
                                r.userId = u /\ r.createdAt = MonthOf(DayOf(now))})
              <= q

\* The rows upgradeSubscription has created for the user.
UpgradeRows(u) == {i \in RowsOf(subs, u) : subs[i].planType \in PaidPlans}

\* C24: a getPlanLimits call made when the user's last upgradeSubscription
\* has completed and no other is under way returns the limits of the plan
\* of that upgrade, whatever expireTrial calls have completed since.
UpgradeNeverLost ==
  [][(proc' = proc /\ ret'.op = "getPlanLimits") =>
       LET u == ret'.user
           last == CHOOSE i \in UpgradeRows(u) : \A j \in UpgradeRows(u) : j <= i
       IN (/\ UpgradeRows(u) # {}
           /\ \A q \in Procs :
                ~(proc[q].op = "upgradeSubscription" /\ proc[q].user = u))
            => ret'.limits = subs[last].planType]_vars

Overdue(S, t) ==
  {i \in 1..Len(S) :
     S[i].planType = "TRIAL" /\ S[i].status = "TRIALING" /\ S[i].trialEnd < t}

Sweeping(p) == proc[p].op = "processExpiredTrials"

\* C26: processExpiredTrials, run without another request in between, takes
\* up exactly the TRIALING trial rows whose trialEnd lies before its now and
\* returns at once without a change when there is none; each of its steps
\* either sets one of those rows to EXPIRED or appends one FREE ACTIVE row
\* for that row's user, changing nothing else, and the rows left to do get
\* fewer with each row done; when it returns no such row is left, so a run
\* right after it finds none; and every run returns.
SweepContract ==
  /\ [][\A p \in SeqProcs :
          /\ (Ready(p) /\ Sweeping(p)') =>
               /\ subs' = subs
               /\ {proc'[p].sid} \cup {proc'[p].todo[i] : i \in DOMAIN proc'[p].todo}
                    = Overdue(subs, now)
               /\ Len(proc'[p].todo) + 1 = Cardinality(Overdue(subs, now))
          /\ (Ready(p) /\ Ready(p)' /\ ret'.op = "processExpiredTrials") =>
               Overdue(subs, now) = {} /\ subs' = subs
          /\ (Sweeping(p) /\ proc'[p] # proc[p]) =>
               LET r == proc[p]
               IN IF r.pc = "exp_update"
                  THEN /\ r.sid \in Overdue(subs, r.at)
                       /\ subs' = [subs EXCEPT ![r.sid].status = "EXPIRED"]
                  ELSE /\ subs' = Append(subs,
                                         [userId |-> subs[r.sid].userId,
                                          planType |-> "FREE", status |-> "ACTIVE",
                                          trialEnd |-> NoDate])
                       /\ \/ Ready(p)' /\ r.todo = <<>>
                          \/ Sweeping(p)' /\ Len(proc'[p].todo) < Len(r.todo)]_vars
  /\ [](ret.op = "processExpiredTrials" => Overdue(subs, ret.at) = {})
  /\ \A p \in SeqProcs : Sweeping(p) ~> Ready(p)

\* A sweep has expired the trials of both users, one of which the
\* middleware had not expired, and has returned.
SweepContractReached ==
  /\ ret.op = "processExpiredTrials" /\ ret.expired = Users
  /\ \A u \in Users : FreeActive(u) # {}

\* The one answer of requestPasswordReset to a request that names an address.
ResetAnswer ==
  [code |-> 200, error |-> "-", upgradeRequired |-> FALSE, image |-> FALSE,
   message |-> "If an account with that email exists, a password reset link has been sent."]

\* An account exists for the address, compared without case.
AccountExists(email) ==
  \E u \in DOMAIN users : ToLowerCase(users[u].email) = ToLowerCase(email)

\* C27: requestPasswordReset answers a request that names an address with
\* the same status and message whether or not an account exists for the
\* address, and a row of passwordResetToken is created only by a request
\* whose address has an account, for the user of that account.
ResetDoesNotReveal ==
  /\ [](ret.op = "requestPasswordReset" /\ ret.email # <<>> =>
          ret.response = ResetAnswer)
  /\ [][\A p \in Procs :
          /\ (Ready(p) /\ proc' # proc /\ proc'[p].op = "requestPasswordReset")
               => AccountExists(proc'[p].email)
          /\ (Ready(p) /\ proc' = proc /\ ret'.op = "requestPasswordReset"
                 /\ ret'.email # <<>>)
               => ~AccountExists(ret'.email) /\ tokens' = tokens
          /\ (proc'[p] # proc[p] /\ passwordResetToken' \ passwordResetToken # {})
               => /\ proc[p].op = "requestPasswordReset"
                  /\ AccountExists(proc[p].email)
                  /\ \A row \in passwordResetToken' \ passwordResetToken :
                       /\ row.userId \in DOMAIN users
                       /\ users[row.userId].email = proc[p].email]_vars

\* A request for an address without an account has been answered while a
\* token created for the registered user is stored.
ResetDoesNotRevealReached ==
  /\ ret.op = "requestPasswordReset" /\ ret.status = "200 no account"
  /\ ret.email = Address["u2"]
  /\ passwordResetToken # {}

\* The reset tokens stored for a user.
ResetTokensOf(u) == {row \in passwordResetToken : row.userId = u}

\* C28: once the requests have returned, at most one reset token is stored
\* for a user; the password hash of a user changes only in a step of a
\* resetPassword request whose password passes validatePassword and whose
\* token is stored for that user and was not expired when the request
\* looked it up; a resetPassword that answers 200 leaves its token deleted,
\* and one called with a token that is not stored is answered 400 without a
\* change; and a resetPassword that is rejected has changed neither the
\* password hash nor the tokens.
ResetTokenContract ==
  /\ []((\A p \in Procs : Ready(p)) =>
          \A u \in DOMAIN users : Cardinality(ResetTokensOf(u)) <= 1)
  /\ [][\A u \in DOMAIN users :
          users'[u].passwordHash # users[u].passwordHash =>
            \E p \in Procs :
              /\ proc[p].op = "resetPassword" /\ proc'[p] # proc[p]
              /\ ValidatePassword(proc[p].password).isValid
              /\ users'[u].passwordHash = HashPassword(proc[p].password)
              /\ \E row \in ResetTokensOf(u) :
                   row.token = proc[p].token /\ proc[p].at <= row.expiresAt]_vars
  /\ [][/\ (ret'.op = "resetPassword" /\ ret'.status = "200") =>
             \A row \in passwordResetToken' : row.token # ret'.token
        /\ \A p \in Procs :
             (/\ Ready(p) /\ proc' = proc /\ ret'.op = "resetPassword"
              /\ \A row \in passwordResetToken : row.token # ret'.token)
               => /\ ret'.response.code = 400
                  /\ users' = users /\ tokens' = tokens]_vars
  /\ [][\A p \in Procs :
          (/\ proc[p].op = "resetPassword" \/ Ready(p)
           /\ proc'[p] # proc[p] \/ proc' = proc
           /\ Ready(p)'
           /\ ret'.op = "resetPassword" /\ ret'.response.code # 200)
            => /\ users' = users /\ tokens' = tokens
               /\ ~At(p, "rs_delete")]_vars

\* The verification tokens stored with the token value.
StoredVerifyTokens(token) == {row \in emailVerifyToken : row.token = token}

\* C29: a user row is created unverified and becomes verified only in a
\* step of a verifyEmail request whose token is stored for that user and
\* was not past its expiresAt when the request tested it, expiresAt being
\* one day after the token's creation by register; a verifyEmail that
\* answers 200 leaves its token deleted; a verifyEmail called with a token
\* that is not stored, or stored and past its expiresAt, is answered 400
\* ('Invalid verification token', 'Verification token has expired') and
\* changes neither the users nor the tokens; and a step of POST
\* /api/qr/generate that stores a qrCode row is a step for a verified user.
VerificationContract ==
  /\ [][\A u \in DOMAIN users' :
          /\ u \notin DOMAIN users => ~users'[u].emailVerified
          /\ (u \in DOMAIN users /\ ~users[u].emailVerified
                /\ users'[u].emailVerified) =>
               \E p \in Procs :
                 /\ proc[p].op = "verifyEmail" /\ proc'[p] # proc[p]
                 /\ \E row \in StoredVerifyTokens(proc[p].token) :
                      row.userId = u /\ proc[p].at <= row.expiresAt]_vars
  /\ [][\A row \in emailVerifyToken' \ emailVerifyToken :
          /\ row.expiresAt = now + DAY
          /\ \E p \in Procs : proc[p].op = "register" /\ proc[p].user = row.userId
                               /\ proc'[p] # proc[p]]_vars
  /\ [][/\ (ret'.op = "verifyEmail" /\ ret'.status = "200") =>
             \A row \in emailVerifyToken' : row.token # ret'.token
        /\ \A p \in Procs :
             (Ready(p) /\ proc' = proc /\ ret'.op = "verifyEmail") =>
               LET stored == StoredVerifyTokens(ret'.token)
               IN /\ \/ stored = {}
                     \/ \E row \in stored : now > row.expiresAt
                  /\ ret'.response.code = 400
                  /\ ret'.response.error =
                       IF stored = {} THEN "Invalid verification token"
                       ELSE "Verification token has expired"
                  /\ users' = users /\ tokens' = tokens
        /\ \A p \in Procs :
             (Ready(p) /\ proc'[p].op = "verifyEmail") =>
               \E row \in StoredVerifyTokens(proc'[p].token) :
                 now <= row.expiresAt]_vars
  /\ [][\A p \in Procs :
          (proc[p].route = "generate" /\ proc'[p] # proc[p]
             /\ qrCodes' # qrCodes) =>
            users[proc[p].user].emailVerified]_vars
  /\ [](BagToSet(qrCodes) # {} => \E u \in DOMAIN users : users[u].emailVerified)

\* The user has verified the address, has generated a QR code, and a second
\* verifyEmail with the same token has been answered 'Invalid'.
VerificationContractReached ==
  /\ ret.op = "verifyEmail" /\ ret.status = "400 invalid" /\ ret.token = 1
  /\ \E u \in DOMAIN users : users[u].emailVerified
  /\ BagToSet(qrCodes) # {}

\* The TRIAL rows of a user.
TrialRowsOf(u) ==
  {i \in 1..Len(subs) : subs[i].userId = u /\ subs[i].planType = "TRIAL"}

\* C30: no two users have the same lower-cased address; a register call
\* for an address that an account exists for, compared without case, is
\* answered 409 and changes neither the users nor the subscriptions nor the
\* tokens; and every user has exactly one TRIAL subscription.
RegistrationContract ==
  /\ [](\A u, v \in DOMAIN users :
          ToLowerCase(users[u].email) = ToLowerCase(users[v].email) => u = v)
  /\ [][\A p \in Procs :
          /\ (Ready(p) /\ proc' = proc /\ ret'.op = "register"
                /\ ret'.email # <<>> /\ AccountExists(ret'.email)) =>
               /\ ret'.response.code = 409
               /\ users' = users /\ subs' = subs /\ tokens' = tokens
          /\ (Ready(p) /\ proc'[p].op = "register") =>
               ~AccountExists(proc'[p].email)]_vars
  /\ [](\A u \in DOMAIN users : Cardinality(TrialRowsOf(u)) = 1)

====
